---- MODULE Spec2Model ----
(***************************************************************************)
(* Agent orchestration core of computer-use-demo: the sampling loop        *)
(* (computer_use_demo/loop.py), the sub-agent spawner                      *)
(* (computer_use_demo/tools/subagent.py) and the service front door        *)
(* (image/api_server.py).                                                  *)
(*                                                                         *)
(* Topology: one top-level agent ("parent") whose loop may invoke the     *)
(* spawn_subagent tool once, creating one sub-agent ("child") that runs   *)
(* its own sampling loop in its own session.  The conversation store, the *)
(* spawn record and the broker session are the only shared state.         *)
(*                                                                         *)
(* Environment of specification Spec: store writes and broker PATCH /     *)
(* DELETE requests are delivered; the outcomes the code branches on (a    *)
(* failing status read, API errors, tool exceptions, broker status codes, *)
(* readiness / health / dispatch failures, an unavailable status GET) are *)
(* nondeterministic.                                                       *)
(***************************************************************************)
EXTENDS Integers, Sequences, FiniteSets, TLC

\* ------------------------------------------------------------------ bounds
\* iterations of `while True` (loop.py:2209) explored per loop invocation
MaxIter == 2
\* content blocks of one model response that are tool_use blocks
MaxBlocks == 1
\* largest timeout_minutes a spawn_subagent call is given
MaxTimeoutMinutes == 1

\* ------------------------------------------------------- program constants
\* timeout_seconds = timeout_minutes * 60
SECONDS_PER_MINUTE == 60

Agents == {"parent", "child"}

\* the designated tool output that signals cancellation
CANCELLED_BY_USER == "CANCELLED_BY_USER"

TerminalStatuses == {"completed", "failed", "cancelled", "paused"}
TerminalSpawnStatuses == {"completed", "failed", "cancelled"}
SpawnStatuses == {"spawning", "running"} \cup TerminalSpawnStatuses

VARIABLES
    status,               \* computer_use_chats.status per conversation ("none": no row)
    spawn,                \* the sub_agent_spawns row of the parent->child spawn
    session,              \* broker session of the child: "none" | "created" | "deleted"
    delete_requests,      \* origins of the DELETE /sessions/{id} requests sent so far
    exit_log,             \* exit status each loop appended to the shared project log
    pc,                   \* position of each sampling loop
    loop_args,            \* spawn_id / cleanup_on_complete each loop was launched with
    iteration,            \* `iteration` of each loop
    prompted_for_log,     \* `prompted_for_log` of each loop
    final_status,         \* `final_status` of each loop
    current_status,       \* `current_status` read at the top of the iteration
    messages,             \* in-memory `messages` list of each loop (message kinds)
    blocks,               \* tool_use blocks of the current response still to run
    tool_result_content,  \* `tool_result_content` of the current iteration
    stored,               \* computer_use_chat_messages rows of each running loop's conversation
    api_result,           \* the loop's best-effort writes (API log rows written in
                          \* this iteration, a write that raised into the loop),
                          \* the exception of its last model call and what the
                          \* api_response_callback was last given
    model_calls,          \* number of model API calls each loop has made
    finalize_steps,       \* steps of the `finally` block each loop has run, in order
    loop_writes,          \* statuses each loop has persisted with update_status
    sentinel_seen,        \* a tool of this loop has returned the cancellation sentinel
    sp,                   \* the spawn_subagent call of the parent (SubAgentTool.__call__)
    elapsed,              \* whole minutes of time.time() - start in _poll_for_completion
    cleanup_task,         \* fire-and-forget asyncio task running _cleanup_session
    filter_messages,      \* `messages` handed to _maybe_filter_to_n_most_recent_images
    filter_call,          \* arguments and image count of the filter call made
    retention,            \* the image-retention step of a loop iteration: its
                          \* configuration and what it did
    hb_tracker,           \* a HeartbeatTracker: its min_interval and last_beat
    hb_clock,             \* the wall clock, in seconds (time.time(), datetime.utcnow())
    hb_writes,            \* last_heartbeat_at values the tracker has written, in order
    hb_calls,             \* how often beat and _update of the tracker have been called,
                          \* and how often beat has raised into its caller
    message_store,        \* "up", or "faulty": store_message and the API log
                          \* writes of the store can raise
    broker_link,          \* "up", or "faulty": the self-cleanup DELETE request
                          \* can be refused or fail to connect
    cache_messages,       \* `messages` of a loop, with the cache_control of each
                          \* content item
    cache_phase,          \* where that loop's iteration is: before the breakpoint
                          \* step ("inject") or after it ("turn")
    cred_broker,          \* the credentials the broker serves: slug -> the lines
                          \* of data["backup_codes"]
    cred_loaded,          \* CredentialsTool._cache_loaded (the cache then holds
                          \* what the broker served)
    used_backup_codes,    \* CredentialsTool._used_backup_codes: slug -> set of codes
    cred_results          \* the ToolResults of the backup_code calls, in order

storeVars == <<status, spawn>>
brokerVars == <<session, delete_requests>>
loopVars == <<pc, loop_args, iteration, prompted_for_log, final_status,
              current_status, messages, blocks, tool_result_content, stored,
              api_result>>
historyVars == <<model_calls, finalize_steps, loop_writes, sentinel_seen, exit_log>>
spawnerVars == <<sp, elapsed, cleanup_task>>
programVars == <<storeVars, brokerVars, loopVars, historyVars, spawnerVars>>
\* state of the functions and classes that are followed on their own
filterVars == <<filter_messages, filter_call, retention>>
heartbeatVars == <<hb_tracker, hb_clock, hb_writes, hb_calls>>
\* the environment's fault setting, fixed for a whole behaviour
faultVars == <<message_store, broker_link>>
cachingVars == <<cache_messages, cache_phase>>
credVars == <<cred_broker, cred_loaded, used_backup_codes, cred_results>>
unitVars == <<filterVars, heartbeatVars, faultVars, cachingVars, credVars>>
vars == <<programVars, unitVars>>

\* ------------------------------------------------------- conversation store
\* ConversationStore.create_conversation(status="running"): INSERT of the row
create_conversation(st, conversation_id) ==
    [st EXCEPT ![conversation_id] = "running"]

\* ConversationStore.update_status: UPDATE ... SET status = %s WHERE id = %s
\* (no row with that id: nothing is updated)
update_status(st, conversation_id, new_status) ==
    IF conversation_id \notin DOMAIN st \/ st[conversation_id] = "none"
    THEN st
    ELSE [st EXCEPT ![conversation_id] = new_status]

\* variant: the child_conversation_id column is set by every call, whether
\* or not the caller passed a value
update_spawn_AlwaysSetsChild(rec, child_conversation_id, new_status) ==
    [status |-> IF new_status = "NULL" THEN rec.status ELSE new_status,
     child_conversation_id |-> child_conversation_id,
     child_id_writes |-> rec.child_id_writes + 1,
     updates |-> rec.updates + 1]

\* ConversationStore.update_spawn with a status and/or child_conversation_id:
\* columns passed as None ("NULL") are left alone, updated_at always moves
update_spawn(rec, child_conversation_id, new_status) ==
    [status |-> IF new_status = "NULL" THEN rec.status ELSE new_status,
     child_conversation_id |->
         IF child_conversation_id = "NULL" THEN rec.child_conversation_id
         ELSE child_conversation_id,
     child_id_writes |->
         IF child_conversation_id = "NULL" THEN rec.child_id_writes
         ELSE rec.child_id_writes + 1,
     updates |-> rec.updates + 1]

\* ConversationStore.create_spawn: INSERT ... status 'spawning'
create_spawn ==
    [status |-> "spawning", child_conversation_id |-> "NULL",
     child_id_writes |-> 0, updates |-> 0]

NoSpawn ==
    [status |-> "none", child_conversation_id |-> "NULL",
     child_id_writes |-> 0, updates |-> 0]

\* ------------------------------------------------------------ front door
\* variant: the request's flag is passed on whoever sent the request
should_cleanup_AsRequested(is_sub_agent, cleanup_on_complete) ==
    cleanup_on_complete

\* process_message: `request.cleanup_on_complete if is_sub_agent else False`
should_cleanup(is_sub_agent, cleanup_on_complete) ==
    IF is_sub_agent THEN cleanup_on_complete ELSE FALSE

\* no model call made yet, api_response_callback not yet called
NoApiResult ==
    [exception |-> "none", callback |-> "none", logged |-> {}, write_raised |-> FALSE]

\* state of a sampling loop at `try:` (iteration = 0, prompted_for_log = False,
\* final_status = "running"), messages holding the submitted task
LaunchLoop(a, has_spawn_id, cleanup) ==
    /\ pc' = [pc EXCEPT ![a] = "check"]
    /\ loop_args' = [loop_args EXCEPT ![a] =
                        [spawn_id |-> has_spawn_id, cleanup_on_complete |-> cleanup]]
    /\ iteration' = [iteration EXCEPT ![a] = 0]
    /\ prompted_for_log' = [prompted_for_log EXCEPT ![a] = FALSE]
    /\ final_status' = [final_status EXCEPT ![a] = "running"]
    /\ current_status' = [current_status EXCEPT ![a] = "NULL"]
    /\ messages' = [messages EXCEPT ![a] = <<"user">>]
    /\ blocks' = [blocks EXCEPT ![a] = <<>>]
    /\ tool_result_content' = [tool_result_content EXCEPT ![a] = <<>>]
    /\ stored' = [stored EXCEPT ![a] = <<>>]
    /\ api_result' = [api_result EXCEPT ![a] = NoApiResult]

\* the loop's locals once the coroutine has ended (the rows of its
\* conversation are followed only while it runs)
EndOfLoop(a, end_pc) ==
    /\ pc' = [pc EXCEPT ![a] = end_pc]
    /\ iteration' = [iteration EXCEPT ![a] = 0]
    /\ prompted_for_log' = [prompted_for_log EXCEPT ![a] = FALSE]
    /\ final_status' = [final_status EXCEPT ![a] = "running"]
    /\ current_status' = [current_status EXCEPT ![a] = "NULL"]
    /\ messages' = [messages EXCEPT ![a] = <<>>]
    /\ blocks' = [blocks EXCEPT ![a] = <<>>]
    /\ tool_result_content' = [tool_result_content EXCEPT ![a] = <<>>]
    /\ stored' = [stored EXCEPT ![a] = <<>>]
    /\ api_result' = [api_result EXCEPT ![a] = NoApiResult]

\* POST /message without parent_chat_id: the top-level agent's run
ProcessMessage(cleanup_on_complete) ==
    /\ pc["parent"] = "idle"
    /\ status' = create_conversation(status, "parent")
    /\ LaunchLoop("parent", FALSE, should_cleanup(FALSE, cleanup_on_complete))
    /\ UNCHANGED <<spawn, brokerVars, historyVars, spawnerVars>>
    /\ UNCHANGED unitVars

\* ------------------------------------------------------------- controller
\* out-of-band stop request recorded in the store
ControllerStop(a) ==
    /\ status[a] = "running"
    /\ status' = update_status(status, a, "stopping")
    /\ UNCHANGED <<spawn, brokerVars, loopVars, historyVars, spawnerVars>>
    /\ UNCHANGED unitVars

\* out-of-band pause request recorded in the store
ControllerPause(a) ==
    /\ status[a] = "running"
    /\ status' = update_status(status, a, "pausing")
    /\ UNCHANGED <<spawn, brokerVars, loopVars, historyVars, spawnerVars>>
    /\ UNCHANGED unitVars

\* ConversationStore.store_message: INSERT INTO computer_use_chat_messages
\* (the row keeps its role, its tool_id and which message of `messages` it holds)
store_message(rows, role, tool_id, message_index) ==
    Append(rows, [role |-> role, tool_id |-> tool_id, message |-> message_index])

\* "role" of a message of `messages`: the task, a tool-results message and
\* the log prompt are user messages
RoleOf(message_kind) ==
    IF message_kind = "assistant" THEN "assistant" ELSE "user"

\* outcomes of a write to the messages or api_requests table: TRUE when
\* the write is committed, FALSE when it raises
WriteOutcomes == IF message_store = "faulty" THEN BOOLEAN ELSE {TRUE}

\* variant: store_message is awaited outside `try:`, its exception reaches
\* the loop
guarded_store_Unguarded(rows, write_ok, role, tool_id, message_index) ==
    [rows |-> IF write_ok THEN store_message(rows, role, tool_id, message_index)
              ELSE rows,
     raised |-> ~write_ok]

\* `try: await conversation_store.store_message(...) except Exception:
\* logger.exception(...)`: the row is written or the failure is logged
guarded_store(rows, write_ok, role, tool_id, message_index) ==
    [rows |-> IF write_ok THEN store_message(rows, role, tool_id, message_index)
              ELSE rows,
     raised |-> FALSE]

\* the API log of an iteration, in `try: ... except Exception:
\* logger.warning(...)`: store_api_request inserts the row of the request,
\* update_api_request_response fills in the response of the row whose id the
\* first write returned (api_request_id stays None when that write failed)
guarded_log(logged, write_ok, what) ==
    [logged |-> IF write_ok /\ (what = "request" \/ "request" \in logged)
                THEN logged \cup {what} ELSE logged,
     raised |-> FALSE]

\* "Store the last user message into db": messages[-1] is stored when its
\* role is "user"
StoreLastUserMessage(rows, msgs, write_ok) ==
    IF RoleOf(msgs[Len(msgs)]) = "user"
    THEN guarded_store(rows, write_ok, "user", "user-input", Len(msgs))
    ELSE [rows |-> rows, raised |-> FALSE]

\* ---------------------------------------------------------- sampling loop
\* variant: the `stopping` test is missing
StatusCheckDecision_StopIgnored(read_status) ==
    IF read_status = "pausing" THEN "paused" ELSE "continue"

\* variant: the `pausing` test is missing
StatusCheckDecision_PauseIgnored(read_status) ==
    IF read_status = "stopping" THEN "cancelled" ELSE "continue"

\* variant: the two tests persist each other's status
StatusCheckDecision_Swapped(read_status) ==
    IF read_status = "stopping" THEN "paused"
    ELSE IF read_status = "pausing" THEN "cancelled"
    ELSE "continue"

\* the two `if current_status == ...` tests at the top of an iteration
StatusCheckDecision(read_status) ==
    IF read_status = "stopping" THEN "cancelled"
    ELSE IF read_status = "pausing" THEN "paused"
    ELSE "continue"

\* `current_status = result[0] if result else "failed"`: what the SELECT of
\* the status check yields for the row of the conversation ("none": no row)
RowStatus(row) == IF row = "none" THEN "failed" ELSE row

\* top of an iteration: iteration += 1, SELECT status succeeds; when the
\* loop goes on, the last user message is stored and the request is logged
\* before the model is called
CheckStatus(a) ==
    /\ pc[a] = "check"
    /\ iteration[a] < MaxIter
    /\ iteration' = [iteration EXCEPT ![a] = @ + 1]
    /\ current_status' = [current_status EXCEPT ![a] = RowStatus(status[a])]
    /\ LET decision == StatusCheckDecision(RowStatus(status[a])) IN
         IF decision = "continue"
         THEN /\ pc' = [pc EXCEPT ![a] = "call_api"]
              /\ \E message_ok \in WriteOutcomes, log_ok \in WriteOutcomes :
                   LET user_row == StoreLastUserMessage(stored[a], messages[a],
                                                        message_ok)
                       request_log == guarded_log({}, log_ok, "request") IN
                   /\ stored' = [stored EXCEPT ![a] = user_row.rows]
                   /\ api_result' =
                          [api_result EXCEPT
                              ![a].logged = request_log.logged,
                              ![a].write_raised =
                                  @ \/ user_row.raised \/ request_log.raised]
              /\ UNCHANGED final_status
         ELSE /\ pc' = [pc EXCEPT ![a] = "write_status"]
              /\ final_status' = [final_status EXCEPT ![a] = decision]
              /\ UNCHANGED <<stored, api_result>>
    /\ UNCHANGED <<storeVars, brokerVars, loop_args, prompted_for_log, messages,
                   blocks, tool_result_content, historyVars, spawnerVars>>
    /\ UNCHANGED unitVars

\* variant: the failure of the status SELECT is noted and the iteration goes on
CheckStatusFails_GoesOn(a) ==
    /\ pc[a] = "check"
    /\ iteration[a] < MaxIter
    /\ iteration' = [iteration EXCEPT ![a] = @ + 1]
    /\ current_status' = [current_status EXCEPT ![a] = "NULL"]
    /\ pc' = [pc EXCEPT ![a] = "call_api"]
    /\ final_status' = [final_status EXCEPT ![a] = "failed"]
    /\ UNCHANGED <<storeVars, brokerVars, loop_args, prompted_for_log, messages,
                   blocks, tool_result_content, stored, api_result, historyVars,
                   spawnerVars>>
    /\ UNCHANGED unitVars

\* top of an iteration: the status SELECT raises
CheckStatusFails(a) ==
    /\ pc[a] = "check"
    /\ iteration[a] < MaxIter
    /\ iteration' = [iteration EXCEPT ![a] = @ + 1]
    /\ current_status' = [current_status EXCEPT ![a] = "NULL"]
    /\ pc' = [pc EXCEPT ![a] = "write_status"]
    /\ final_status' = [final_status EXCEPT ![a] = "failed"]
    /\ UNCHANGED <<storeVars, brokerVars, loop_args, prompted_for_log, messages,
                   blocks, tool_result_content, stored, api_result, historyVars,
                   spawnerVars>>
    /\ UNCHANGED unitVars

\* variant: the status-check exit leaves the coroutine without passing
\* through the `finally:` block
WriteStatus_SkipsFinally(a) ==
    /\ pc[a] = "write_status"
    /\ status' = update_status(status, a, final_status[a])
    /\ loop_writes' = [loop_writes EXCEPT ![a] = Append(@, final_status[a])]
    /\ EndOfLoop(a, "done")
    /\ UNCHANGED <<spawn, brokerVars, loop_args, model_calls, finalize_steps,
                   sentinel_seen, exit_log, spawnerVars>>
    /\ UNCHANGED unitVars

\* update_status(final_status) of the status check, then `break`
WriteStatus(a) ==
    /\ pc[a] = "write_status"
    /\ status' = update_status(status, a, final_status[a])
    /\ loop_writes' = [loop_writes EXCEPT ![a] = Append(@, final_status[a])]
    /\ pc' = [pc EXCEPT ![a] = "finally"]
    /\ UNCHANGED <<spawn, brokerVars, loop_args, iteration, prompted_for_log,
                   final_status, current_status, messages, blocks,
                   tool_result_content, stored, api_result,
                   model_calls, finalize_steps, sentinel_seen, exit_log,
                   spawnerVars>>
    /\ UNCHANGED unitVars

RECURSIVE CountOf(_, _)
CountOf(s, x) ==
    IF s = <<>> THEN 0
    ELSE (IF Head(s) = x THEN 1 ELSE 0) + CountOf(Tail(s), x)

RECURSIVE SeqsUpTo(_, _)
SeqsUpTo(S, n) ==
    IF n = 0 THEN {<<>>}
    ELSE LET shorter == SeqsUpTo(S, n - 1) IN
         shorter \cup {Append(s, x) : s \in {t \in shorter : Len(t) = n - 1}, x \in S}

\* the tool_use blocks of a model response: up to MaxBlocks of them, each an
\* ordinary tool or spawn_subagent
ResponseShapes == SeqsUpTo({"tool", "spawn"}, MaxBlocks)

\* tool_use blocks a model response of loop a may carry: spawn_subagent is
\* requested by the parent only, once, and as the first block of its response
\* (the blocks after it are the ones a cancelled spawn leaves unrun)
Responses(a) ==
    {r \in ResponseShapes :
        /\ CountOf(r, "spawn") <=
               (IF a = "parent" /\ spawn.status = "none" THEN 1 ELSE 0)
        /\ CountOf(r, "spawn") > 0 => r[1] = "spawn"}

\* the model call succeeds: the assistant message is appended and its
\* tool_use blocks (`response`, chosen by the model) are about to be run
CallApi(a, response) ==
    /\ pc[a] = "call_api"
    /\ model_calls' = [model_calls EXCEPT ![a] = @ + 1]
    /\ messages' = [messages EXCEPT ![a] = Append(@, "assistant")]
    /\ \E message_ok \in WriteOutcomes, log_ok \in WriteOutcomes :
         LET response_log == guarded_log(api_result[a].logged, log_ok, "response")
             assistant_row == guarded_store(stored[a], message_ok, "assistant",
                                            "response", Len(messages[a]) + 1) IN
         /\ stored' = [stored EXCEPT ![a] = assistant_row.rows]
         /\ api_result' =
                [api_result EXCEPT ![a] =
                    [exception |-> "none", callback |-> "response",
                     logged |-> response_log.logged,
                     write_raised |-> \/ api_result[a].write_raised
                                      \/ response_log.raised
                                      \/ assistant_row.raised]]
    /\ blocks' = [blocks EXCEPT ![a] = response]
    /\ tool_result_content' = [tool_result_content EXCEPT ![a] = <<>>]
    /\ pc' = [pc EXCEPT ![a] = "tools"]
    /\ current_status' = [current_status EXCEPT ![a] = "NULL"]
    /\ UNCHANGED <<storeVars, brokerVars, loop_args, iteration, prompted_for_log,
                   final_status, finalize_steps, loop_writes, sentinel_seen,
                   exit_log, spawnerVars>>
    /\ UNCHANGED unitVars

\* variant: after an API error the loop goes on to its next iteration
CallApiFails_GoesOn(a, exception) ==
    /\ pc[a] = "call_api"
    /\ model_calls' = [model_calls EXCEPT ![a] = @ + 1]
    /\ status' = update_status(status, a, "failed")
    /\ loop_writes' = [loop_writes EXCEPT ![a] = Append(@, "failed")]
    /\ pc' = [pc EXCEPT ![a] = "check"]
    /\ current_status' = [current_status EXCEPT ![a] = "NULL"]
    /\ api_result' = [api_result EXCEPT ![a].exception = exception,
                                        ![a].callback = "error"]
    /\ UNCHANGED <<spawn, brokerVars, loop_args, iteration, prompted_for_log,
                   final_status, messages, blocks, tool_result_content, stored,
                   finalize_steps, sentinel_seen, exit_log, spawnerVars>>
    /\ UNCHANGED unitVars

\* the model call raises: update_status("failed", error_message), return.
\* A structured error (APIStatusError, APIResponseValidationError, APIError)
\* is handed to api_response_callback; any other exception is stored as a
\* system row instead
CallApiFails(a, exception) ==
    /\ pc[a] = "call_api"
    /\ model_calls' = [model_calls EXCEPT ![a] = @ + 1]
    /\ status' = update_status(status, a, "failed")
    /\ loop_writes' = [loop_writes EXCEPT ![a] = Append(@, "failed")]
    /\ pc' = [pc EXCEPT ![a] = "finally"]
    /\ current_status' = [current_status EXCEPT ![a] = "NULL"]
    /\ IF exception = "APIError"
       THEN /\ api_result' = [api_result EXCEPT ![a].exception = exception,
                                                ![a].callback = "error"]
            /\ UNCHANGED stored
       ELSE \E message_ok \in WriteOutcomes :
              LET error_row == guarded_store(stored[a], message_ok, "system",
                                             "system-error", 0) IN
              /\ stored' = [stored EXCEPT ![a] = error_row.rows]
              /\ api_result' =
                     [api_result EXCEPT ![a].exception = exception,
                                        ![a].write_raised = @ \/ error_row.raised]
    /\ UNCHANGED <<spawn, brokerVars, loop_args, iteration, prompted_for_log,
                   final_status, messages, blocks, tool_result_content,
                   finalize_steps, sentinel_seen, exit_log, spawnerVars>>
    /\ UNCHANGED unitVars

\* the ToolResult of one tool_collection.run: the tool's own result ("ok",
\* or "error" when it returns ToolResult(error=...)), or, when the call
\* raises, the ToolResult(error="Tool execution failed: ...") the loop makes
ToolRunResult(outcome) ==
    IF outcome = "raises" THEN "execution_failed" ELSE outcome

\* _make_api_tool_result: is_error is set when the result carries an error
is_error(tool_result) == tool_result \in {"error", "execution_failed"}

\* variant: an exception of the tool is not caught inside the `for` loop and
\* ends the run as failed, like an unexpected error of the iteration
RunTool_RaiseEndsRun(a, outcome) ==
    /\ pc[a] = "tools"
    /\ blocks[a] # <<>>
    /\ Head(blocks[a]) = "tool"
    /\ IF outcome = "raises"
       THEN /\ status' = update_status(status, a, "failed")
            /\ loop_writes' = [loop_writes EXCEPT ![a] = Append(@, "failed")]
            /\ pc' = [pc EXCEPT ![a] = "finally"]
            /\ UNCHANGED <<tool_result_content, blocks>>
       ELSE /\ tool_result_content' =
                   [tool_result_content EXCEPT ![a] = Append(@, ToolRunResult(outcome))]
            /\ blocks' = [blocks EXCEPT ![a] = Tail(@)]
            /\ UNCHANGED <<status, loop_writes, pc>>
    /\ UNCHANGED <<spawn, brokerVars, loop_args, iteration,
                   prompted_for_log, final_status, current_status, messages,
                   stored, api_result, model_calls, finalize_steps, sentinel_seen,
                   exit_log, spawnerVars>>
    /\ UNCHANGED unitVars

\* an ordinary tool_use block: tool_collection.run returns a result or raises;
\* either way one tool result is appended and the `for` loop goes on
RunTool(a, outcome) ==
    /\ pc[a] = "tools"
    /\ blocks[a] # <<>>
    /\ Head(blocks[a]) = "tool"
    /\ tool_result_content' =
           [tool_result_content EXCEPT ![a] = Append(@, ToolRunResult(outcome))]
    /\ blocks' = [blocks EXCEPT ![a] = Tail(@)]
    /\ UNCHANGED <<storeVars, brokerVars, pc, loop_args, iteration,
                   prompted_for_log, final_status, current_status, messages,
                   stored, api_result, historyVars, spawnerVars>>
    /\ UNCHANGED unitVars

\* ------------------------------------------------------- spawn_subagent
\* variant: the poll does not react to a parent that is stopping
ParentCancelStatuses_NoStopping == {"cancelled", "paused"}

\* the parent statuses on which _poll_for_completion stops waiting
ParentCancelStatuses == {"stopping", "cancelled", "paused"}

\* `while True:` of _poll_for_completion (the elapsed-time test is commented out)
PollLoopCondition(elapsed_seconds, timeout_seconds) == TRUE

\* DELETE /sessions/{id} as the broker applies it
DeleteSession(s) == IF s = "created" THEN "deleted" ELSE s

IdleCall ==
    [pc |-> "idle", wait_for_completion |-> FALSE, cleanup_on_complete |-> FALSE,
     timeout_minutes |-> 0, sub_agent_started |-> FALSE,
     sub_conversation_id |-> "NULL", final_result |-> "NULL", result |-> "NULL",
     error |-> "NULL", parent_seen |-> "NULL"]

\* __call__ has returned: its locals are gone, the model keeps what it
\* returned and what it was called with
Returned(call, tool_result, error_message) ==
    [IdleCall EXCEPT !.pc = "returned",
                     !.wait_for_completion = call.wait_for_completion,
                     !.cleanup_on_complete = call.cleanup_on_complete,
                     !.sub_conversation_id = call.sub_conversation_id,
                     !.parent_seen = call.parent_seen,
                     !.result = tool_result,
                     !.error = error_message]

\* the parent's loop takes the result of `await tool_collection.run(...)`: on
\* the sentinel output final_status becomes "cancelled" and `break` leaves the
\* `for content_block` loop (the blocks not yet run are skipped); any other
\* result is appended to tool_result_content
ReturnToLoop(tool_result) ==
    /\ pc' = [pc EXCEPT !["parent"] = "tools"]
    /\ IF tool_result = CANCELLED_BY_USER
       THEN /\ final_status' = [final_status EXCEPT !["parent"] = "cancelled"]
            /\ blocks' = [blocks EXCEPT !["parent"] = <<>>]
            /\ sentinel_seen' = [sentinel_seen EXCEPT !["parent"] = TRUE]
            /\ UNCHANGED tool_result_content
       ELSE /\ tool_result_content' =
                   [tool_result_content EXCEPT !["parent"] =
                       Append(@, IF tool_result = "error" THEN "error" ELSE "ok")]
            /\ blocks' = [blocks EXCEPT !["parent"] = Tail(@)]
            /\ UNCHANGED <<final_status, sentinel_seen>>
    /\ UNCHANGED <<loop_args, iteration, prompted_for_log, current_status,
                   messages, stored, api_result, model_calls, finalize_steps,
                   loop_writes, exit_log>>

\* the loop reaches a spawn_subagent block: __call__ starts and inserts the
\* spawn record before touching the broker
StartSpawn(a, wait, cleanup, minutes) ==
    /\ pc[a] = "tools"
    /\ blocks[a] # <<>>
    /\ Head(blocks[a]) = "spawn"
    /\ sp.pc = "idle"
    /\ pc' = [pc EXCEPT ![a] = "in_tool"]
    /\ spawn' = create_spawn
    /\ sp' = [IdleCall EXCEPT !.pc = "post_session", !.wait_for_completion = wait,
                              !.cleanup_on_complete = cleanup,
                              !.timeout_minutes = minutes]
    /\ UNCHANGED <<status, brokerVars, loop_args, iteration, prompted_for_log,
                   final_status, current_status, messages, blocks,
                   tool_result_content, stored, api_result,
                   model_calls, finalize_steps, loop_writes, sentinel_seen,
                   exit_log, elapsed, cleanup_task>>
    /\ UNCHANGED unitVars

\* variant: a refused session creation is cleaned up like the later failures
\* (the session is deleted although this call did not create it)
CreateSession_RefusalCleansUp(code) ==
    /\ sp.pc = "post_session"
    /\ IF code = 201
       THEN /\ session' = "created"
            /\ spawn' = update_spawn(spawn, "NULL", "NULL")
            /\ sp' = [sp EXCEPT !.pc = "wait_ready"]
            /\ UNCHANGED <<delete_requests, loopVars, historyVars>>
       ELSE /\ sp' = Returned(sp, "error",
                              IF code = 409 THEN "session already exists"
                              ELSE "Failed to create sub-agent session")
            /\ ReturnToLoop("error")
            /\ spawn' = update_spawn(spawn, "NULL", "failed")
            /\ session' = DeleteSession(session)
            /\ delete_requests' = delete_requests \cup {"spawner"}
    /\ UNCHANGED <<status, elapsed, cleanup_task>>
    /\ UNCHANGED unitVars

\* POST /sessions answered with a status code: 201 continues (pod_name is
\* recorded), 409 and any other code return an error result at once
CreateSession(code) ==
    /\ sp.pc = "post_session"
    /\ IF code = 201
       THEN /\ session' = "created"
            /\ spawn' = update_spawn(spawn, "NULL", "NULL")
            /\ sp' = [sp EXCEPT !.pc = "wait_ready"]
            /\ UNCHANGED <<loopVars, historyVars>>
       ELSE /\ sp' = Returned(sp, "error",
                              IF code = 409 THEN "session already exists"
                              ELSE "Failed to create sub-agent session")
            /\ ReturnToLoop("error")
            /\ UNCHANGED <<session, spawn>>
    /\ UNCHANGED <<status, delete_requests, elapsed, cleanup_task>>
    /\ UNCHANGED unitVars

\* variant: the failure is recorded and reported but the session is kept
FailBeforeStart_LeavesSession(error_message) ==
    /\ spawn' = update_spawn(spawn, "NULL", "failed")
    /\ UNCHANGED <<session, delete_requests>>
    /\ sp' = Returned(sp, "error", error_message)
    /\ ReturnToLoop("error")

\* the failure handling shared by the readiness, health and dispatch failures
\* and by the `except` handlers before the sub-agent has started:
\* _update_spawn_failed, _cleanup_session(session_id, None), error result
FailBeforeStart(error_message) ==
    /\ spawn' = update_spawn(spawn, "NULL", "failed")
    /\ session' = DeleteSession(session)
    /\ delete_requests' = delete_requests \cup {"spawner"}
    /\ sp' = Returned(sp, "error", error_message)
    /\ ReturnToLoop("error")

\* POST /sessions raises (httpx timeout or connection error)
CreateSessionRaises ==
    /\ sp.pc = "post_session"
    /\ FailBeforeStart("request failed")
    /\ UNCHANGED <<status, elapsed, cleanup_task>>
    /\ UNCHANGED unitVars

\* _wait_for_ready returns True or False
WaitForReady(ready) ==
    /\ sp.pc = "wait_ready"
    /\ IF ready
       THEN /\ sp' = [sp EXCEPT !.pc = "wait_health"]
            /\ UNCHANGED <<spawn, session, delete_requests, loopVars, historyVars>>
       ELSE FailBeforeStart("Pod failed to start")
    /\ UNCHANGED <<status, elapsed, cleanup_task>>
    /\ UNCHANGED unitVars

\* _wait_for_api_health returns True or False
WaitForApiHealth(api_healthy) ==
    /\ sp.pc = "wait_health"
    /\ IF api_healthy
       THEN /\ sp' = [sp EXCEPT !.pc = "dispatch"]
            /\ UNCHANGED <<spawn, session, delete_requests, loopVars, historyVars>>
       ELSE FailBeforeStart("API health check failed")
    /\ UNCHANGED <<status, elapsed, cleanup_task>>
    /\ UNCHANGED unitVars

\* POST /message to the child is accepted: the child's front door creates its
\* conversation and launches its sampling loop, then answers
DispatchAccepted ==
    /\ sp.pc = "dispatch"
    /\ status' = create_conversation(status, "child")
    /\ LaunchLoop("child", TRUE, should_cleanup(TRUE, sp.cleanup_on_complete))
    /\ sp' = [sp EXCEPT !.pc = "update_running", !.sub_agent_started = TRUE,
                        !.sub_conversation_id = "child"]
    /\ UNCHANGED <<spawn, brokerVars, historyVars, elapsed, cleanup_task>>
    /\ UNCHANGED unitVars

\* POST /message to the child is answered with a non-success status
DispatchRejected ==
    /\ sp.pc = "dispatch"
    /\ FailBeforeStart("Failed to send task")
    /\ UNCHANGED <<status, elapsed, cleanup_task>>
    /\ UNCHANGED unitVars

\* POST /message to the child is not answered within its 60 s timeout (the
\* request is taken as not delivered): `except httpx.TimeoutException` with
\* sub_agent_started still False
DispatchTimesOut ==
    /\ sp.pc = "dispatch"
    /\ FailBeforeStart("request timed out")
    /\ UNCHANGED <<status, elapsed, cleanup_task>>
    /\ UNCHANGED unitVars

\* variant: the wait_for_completion flag is not read, every call polls
UpdateRunning_AlwaysPolls ==
    /\ sp.pc = "update_running"
    /\ spawn' = update_spawn(spawn, sp.sub_conversation_id, "running")
    /\ sp' = [sp EXCEPT !.pc = "poll_parent"]
    /\ elapsed' = 0
    /\ UNCHANGED <<status, brokerVars, cleanup_task, loopVars, historyVars>>
    /\ UNCHANGED unitVars

\* update_spawn(child_conversation_id, status="running"); without
\* wait_for_completion the call returns here
UpdateRunning ==
    /\ sp.pc = "update_running"
    /\ spawn' = update_spawn(spawn, sp.sub_conversation_id, "running")
    /\ IF sp.wait_for_completion
       THEN /\ sp' = [sp EXCEPT !.pc = "poll_parent"]
            /\ UNCHANGED <<loopVars, historyVars>>
       ELSE /\ sp' = Returned(sp, "spawned", "NULL")
            /\ ReturnToLoop("spawned")
    /\ elapsed' = 0
    /\ UNCHANGED <<status, brokerVars, cleanup_task>>
    /\ UNCHANGED unitVars

\* the poll loop is left with a result: its clock and timeout are not read
\* again
LeavePoll(call) == [call EXCEPT !.timeout_minutes = 0]

\* a poll iteration starts with GET /conversations/{my_conversation_id}
PollParent(outcome) ==
    /\ sp.pc = "poll_parent"
    /\ sp' = IF outcome = "ok"
             THEN IF status["parent"] \in ParentCancelStatuses
                  THEN [LeavePoll(sp) EXCEPT !.parent_seen = status["parent"],
                                             !.pc = "cancel_patch"]
                  ELSE [sp EXCEPT !.parent_seen = status["parent"],
                                  !.pc = "poll_child"]
             ELSE [sp EXCEPT !.parent_seen =
                                 IF outcome = "raises" THEN "NULL" ELSE "unavailable",
                             !.pc = IF outcome = "raises" THEN "sleep"
                                    ELSE "poll_child"]
    /\ elapsed' = IF sp'.pc = "cancel_patch" THEN 0 ELSE elapsed
    /\ UNCHANGED <<storeVars, brokerVars, loopVars, historyVars, cleanup_task>>
    /\ UNCHANGED unitVars

\* _cleanup_session, first request: PATCH the child conversation to cancelled
CancelPatch ==
    /\ sp.pc = "cancel_patch"
    /\ status' = update_status(status, sp.sub_conversation_id, "cancelled")
    /\ sp' = [sp EXCEPT !.pc = "cancel_delete"]
    /\ UNCHANGED <<spawn, brokerVars, loopVars, historyVars, elapsed, cleanup_task>>
    /\ UNCHANGED unitVars

\* _cleanup_session, second request: DELETE the session; the poll returns
\* the sentinel
CancelDelete ==
    /\ sp.pc = "cancel_delete"
    /\ session' = DeleteSession(session)
    /\ delete_requests' = delete_requests \cup {"spawner"}
    /\ sp' = [sp EXCEPT !.pc = "update_cancelled", !.final_result = CANCELLED_BY_USER]
    /\ UNCHANGED <<storeVars, loopVars, historyVars, elapsed, cleanup_task>>
    /\ UNCHANGED unitVars

\* the poll's GET /conversations/{conversation_id} of the child (my_data of
\* the parent check is not used past this point)
PollChild(outcome) ==
    /\ sp.pc = "poll_child"
    /\ sp' = IF outcome = "ok" /\ status["child"] \in {"completed", "failed", "cancelled"}
             THEN [LeavePoll(sp) EXCEPT !.final_result = status["child"],
                                        !.pc = "update_completed",
                                        !.parent_seen = "NULL"]
             ELSE [sp EXCEPT !.pc = "sleep", !.parent_seen = "NULL"]
    /\ elapsed' = IF sp'.pc = "update_completed" THEN 0 ELSE elapsed
    /\ UNCHANGED <<storeVars, brokerVars, loopVars, historyVars, cleanup_task>>
    /\ UNCHANGED unitVars

Min(x, y) == IF x < y THEN x ELSE y

\* asyncio.sleep(5) (during which the clock may reach the next whole minute;
\* it is followed up to the caller's timeout, the only value it is compared
\* with), then the loop condition; when it is false _poll_for_completion
\* returns None and __call__ returns the timed-out result
PollSleep(minutes_passed) ==
    /\ sp.pc = "sleep"
    /\ elapsed' = Min(elapsed + minutes_passed, sp.timeout_minutes)
    /\ IF PollLoopCondition(elapsed' * SECONDS_PER_MINUTE,
                            sp.timeout_minutes * SECONDS_PER_MINUTE)
       THEN /\ sp' = [sp EXCEPT !.pc = "poll_parent", !.parent_seen = "NULL"]
            /\ UNCHANGED <<cleanup_task, loopVars, historyVars>>
       ELSE /\ sp' = Returned(sp, "timed_out", "NULL")
            /\ ReturnToLoop("timed_out")
            /\ cleanup_task' = IF sp.cleanup_on_complete THEN "pending_cancel"
                               ELSE cleanup_task
    /\ UNCHANGED <<storeVars, brokerVars>>
    /\ UNCHANGED unitVars

\* final_result == "CANCELLED_BY_USER": update_spawn(status="cancelled"),
\* the tool result is the sentinel
UpdateCancelled ==
    /\ sp.pc = "update_cancelled"
    /\ spawn' = update_spawn(spawn, "NULL", "cancelled")
    /\ sp' = Returned(sp, CANCELLED_BY_USER, "NULL")
    /\ ReturnToLoop(CANCELLED_BY_USER)
    /\ UNCHANGED <<status, brokerVars, elapsed, cleanup_task>>
    /\ UNCHANGED unitVars

\* any other final_result: update_spawn(status="completed"), fire-and-forget
\* session clean-up when cleanup_on_complete, the tool result carries the text
UpdateCompleted ==
    /\ sp.pc = "update_completed"
    /\ spawn' = update_spawn(spawn, "NULL", "completed")
    /\ cleanup_task' = IF sp.cleanup_on_complete THEN "pending" ELSE cleanup_task
    /\ sp' = Returned(sp, "ok", "NULL")
    /\ ReturnToLoop("ok")
    /\ UNCHANGED <<status, brokerVars, elapsed>>
    /\ UNCHANGED unitVars

\* the task created by asyncio.create_task(self._cleanup_session(...)) runs
CleanupTaskRun ==
    /\ cleanup_task \in {"pending", "pending_cancel"}
    /\ status' = IF cleanup_task = "pending_cancel"
                 THEN update_status(status, sp.sub_conversation_id, "cancelled")
                 ELSE status
    /\ session' = DeleteSession(session)
    /\ delete_requests' = delete_requests \cup {"cleanup_task"}
    /\ cleanup_task' = "done"
    /\ UNCHANGED <<spawn, loopVars, historyVars, sp, elapsed>>
    /\ UNCHANGED unitVars

\* the broker tears the deleted session's pod down: the child's process stops
PodKilled ==
    /\ session = "deleted"
    /\ pc["child"] \notin {"idle", "done", "killed"}
    /\ EndOfLoop("child", "killed")
    /\ UNCHANGED <<storeVars, brokerVars, loop_args, historyVars, spawnerVars>>
    /\ UNCHANGED unitVars

\* ------------------------------------------ sampling loop, after the tools
\* variant: prompted_for_log is not consulted
NoToolDecision_AlwaysPrompt(prompted) == "prompt"

\* `if not tool_result_content:` -- prompt once for the project log, then complete
NoToolDecision(prompted) ==
    IF ~prompted THEN "prompt" ELSE "complete"

\* after the `for content_block` loop: no tool result -> log prompt or
\* completion; otherwise the tool results become the next user message
\* (tool_result_content is a local that the next iteration starts afresh)
AfterTools(a) ==
    /\ pc[a] = "tools"
    /\ blocks[a] = <<>>
    /\ IF tool_result_content[a] = <<>>
       THEN IF NoToolDecision(prompted_for_log[a]) = "prompt"
            THEN /\ prompted_for_log' = [prompted_for_log EXCEPT ![a] = TRUE]
                 /\ messages' = [messages EXCEPT ![a] = Append(@, "log_prompt")]
                 /\ \E message_ok \in WriteOutcomes :
                      LET prompt_row ==
                              guarded_store(stored[a], message_ok, "user",
                                            "system-log-prompt",
                                            Len(messages[a]) + 1) IN
                      /\ stored' = [stored EXCEPT ![a] = prompt_row.rows]
                      /\ api_result' = [api_result EXCEPT ![a].write_raised =
                                                             @ \/ prompt_row.raised]
                 /\ pc' = [pc EXCEPT ![a] = "check"]
                 /\ UNCHANGED <<final_status, status, loop_writes>>
            ELSE /\ final_status' = [final_status EXCEPT ![a] = "completed"]
                 /\ status' = update_status(status, a, "completed")
                 /\ loop_writes' = [loop_writes EXCEPT ![a] = Append(@, "completed")]
                 /\ pc' = [pc EXCEPT ![a] = "finally"]
                 /\ UNCHANGED <<prompted_for_log, messages, stored, api_result>>
       ELSE /\ messages' = [messages EXCEPT ![a] = Append(@, "tool_results")]
            /\ \E message_ok \in WriteOutcomes :
                 LET results_row ==
                         guarded_store(stored[a], message_ok, "tool", "response",
                                       Len(messages[a]) + 1) IN
                 /\ stored' = [stored EXCEPT ![a] = results_row.rows]
                 /\ api_result' = [api_result EXCEPT ![a].write_raised =
                                                        @ \/ results_row.raised]
            /\ pc' = [pc EXCEPT ![a] = "check"]
            /\ UNCHANGED <<prompted_for_log, final_status, status, loop_writes>>
    /\ tool_result_content' = [tool_result_content EXCEPT ![a] = <<>>]
    /\ UNCHANGED <<spawn, brokerVars, loop_args, iteration, current_status,
                   blocks, model_calls, finalize_steps, sentinel_seen,
                   exit_log, spawnerVars>>
    /\ UNCHANGED unitVars

\* ------------------------------------------------ `finally:` of the loop
\* final_status -> spawn status, `.get(final_status, "failed")`
SpawnStatusMap(fs) ==
    CASE fs = "completed" -> "completed"
      [] fs = "cancelled" -> "cancelled"
      [] fs = "paused" -> "cancelled"
      [] OTHER -> "failed"

\* the `finally:` block up to its first suspension:
\* _update_status_file_on_exit and _append_system_log_entry (synchronous),
\* then `if spawn_id and conversation_store:` update_spawn(status=spawn_status)
Finally(a) ==
    /\ pc[a] = "finally"
    /\ exit_log' = [exit_log EXCEPT ![a] = final_status[a]]
    /\ IF loop_args[a].spawn_id
       THEN /\ spawn' = update_spawn(spawn, "NULL", SpawnStatusMap(final_status[a]))
            /\ finalize_steps' = [finalize_steps EXCEPT ![a] = @ \o <<"memory", "spawn">>]
       ELSE /\ finalize_steps' = [finalize_steps EXCEPT ![a] = Append(@, "memory")]
            /\ UNCHANGED spawn
    /\ IF loop_args[a].cleanup_on_complete
       THEN /\ pc' = [pc EXCEPT ![a] = "finally_cleanup"]
            /\ UNCHANGED <<iteration, prompted_for_log, final_status,
                           current_status, messages, blocks, tool_result_content,
                           stored, api_result>>
       ELSE EndOfLoop(a, "done")
    /\ UNCHANGED <<status, brokerVars, loop_args, model_calls, loop_writes,
                   sentinel_seen, spawnerVars>>
    /\ UNCHANGED unitVars

\* what the DELETE of _self_cleanup can meet: a success answer, a non-success
\* answer, or an exception of the HTTP client (no connection, timeout)
DeleteOutcomes ==
    IF broker_link = "faulty" THEN {"ok", "non_success", "raises"} ELSE {"ok"}

\* variant: the request is not wrapped in try/except
self_cleanup_Propagates(s, outcome) ==
    [session |-> IF outcome = "ok" THEN DeleteSession(s) ELSE s,
     received |-> outcome # "raises",
     raised |-> outcome = "raises"]

\* _self_cleanup: DELETE /sessions/{session_id} inside try/except Exception;
\* a non-success answer and an exception are logged
self_cleanup(s, outcome) ==
    [session |-> IF outcome = "ok" THEN DeleteSession(s) ELSE s,
     received |-> outcome # "raises",
     raised |-> FALSE]

\* `if cleanup_on_complete and session_id:` await _self_cleanup(...), the last
\* statement of `finally:`; an exception it let through would leave the loop
FinallyCleanup(a, outcome) ==
    /\ pc[a] = "finally_cleanup"
    /\ LET r == self_cleanup(session, outcome) IN
       /\ session' = r.session
       /\ delete_requests' = IF r.received
                             THEN delete_requests \cup {"self_cleanup"}
                             ELSE delete_requests
       /\ EndOfLoop(a, IF r.raised THEN "raised" ELSE "done")
    /\ finalize_steps' = [finalize_steps EXCEPT ![a] = Append(@, "cleanup")]
    /\ UNCHANGED <<storeVars, loop_args, model_calls, loop_writes,
                   sentinel_seen, exit_log, spawnerVars>>
    /\ UNCHANGED unitVars

\* ------------------------------------------------------------ image filter
MaxMessages == 4
MaxKeep == 5
MaxThreshold == 4

ImageItem == [type |-> "image"]
TextItem == [type |-> "text"]

\* a content block of a message; is_list tells a list `content` from a string
ContentBlock(type, is_list, content) ==
    [type |-> type, is_list |-> is_list, content |-> content]

\* a message of the history; is_list tells a list `content` from a string
Message(role, is_list, content) ==
    [role |-> role, is_list |-> is_list, content |-> content]

\* the kinds of message a history is made of: a plain-text user message, an
\* assistant message, a tool-results message with one screenshot next to a
\* top-level image, one whose tool result is an error string, and one with
\* two tool results carrying three screenshots
MessageShapes ==
    { Message("user", FALSE, <<>>),
      Message("assistant", TRUE, <<ContentBlock("text", FALSE, <<>>),
                                   ContentBlock("tool_use", FALSE, <<>>)>>),
      Message("user", TRUE, <<ContentBlock("image", FALSE, <<>>),
                              ContentBlock("tool_result", TRUE,
                                           <<TextItem, ImageItem>>)>>),
      Message("user", TRUE, <<ContentBlock("tool_result", FALSE, <<>>)>>),
      Message("user", TRUE, <<ContentBlock("tool_result", TRUE,
                                           <<ImageItem, ImageItem>>),
                              ContentBlock("tool_result", TRUE,
                                           <<ImageItem, TextItem>>)>>) }

Histories == SeqsUpTo(MessageShapes, MaxMessages)

\* the tool_result blocks of the messages whose content is a list, in order
RECURSIVE tool_result_blocks(_)
tool_result_blocks(msgs) ==
    IF msgs = <<>> THEN <<>>
    ELSE SelectSeq(IF Head(msgs).is_list THEN Head(msgs).content ELSE <<>>,
                   LAMBDA item : item.type = "tool_result")
         \o tool_result_blocks(Tail(msgs))

\* the image items of the given tool_result blocks
RECURSIVE total_images(_)
total_images(tool_results) ==
    IF tool_results = <<>> THEN 0
    ELSE CountOf(Head(tool_results).content, ImageItem)
         + total_images(Tail(tool_results))

\* variant: the surplus is removed whole, not in chunks
images_to_remove_Unchunked(total, images_to_keep, min_removal_threshold) ==
    total - images_to_keep

\* variant: the surplus is rounded up to the next chunk
images_to_remove_RoundedUp(total, images_to_keep, min_removal_threshold) ==
    LET surplus == total - images_to_keep IN
    surplus + ((min_removal_threshold - (surplus % min_removal_threshold))
                   % min_removal_threshold)

\* images_to_remove = total_images - images_to_keep, less its remainder
\* modulo the chunk size (`%` with a positive divisor is never negative, in
\* Python as here)
images_to_remove(total, images_to_keep, min_removal_threshold) ==
    LET surplus == total - images_to_keep IN
    surplus - (surplus % min_removal_threshold)

\* the inner loop over one tool result's content: an image is dropped while
\* the counter is positive; `left` is the counter afterwards
RECURSIVE FilterContent(_, _)
FilterContent(content, to_remove) ==
    IF content = <<>> THEN [content |-> <<>>, left |-> to_remove]
    ELSE IF Head(content).type = "image" /\ to_remove > 0
         THEN FilterContent(Tail(content), to_remove - 1)
         ELSE LET rest == FilterContent(Tail(content), to_remove) IN
              [content |-> <<Head(content)>> \o rest.content, left |-> rest.left]

\* the loop over the tool_result blocks of one message: those with a list
\* content get their filtered content, every other block is left alone
RECURSIVE FilterBlocks(_, _)
FilterBlocks(content_blocks, to_remove) ==
    IF content_blocks = <<>> THEN [content |-> <<>>, left |-> to_remove]
    ELSE LET block == Head(content_blocks)
             filtered == IF block.type = "tool_result" /\ block.is_list
                         THEN FilterContent(block.content, to_remove)
                         ELSE [content |-> block.content, left |-> to_remove]
             rest == FilterBlocks(Tail(content_blocks), filtered.left) IN
         [content |-> <<[block EXCEPT !.content = filtered.content]>> \o rest.content,
          left |-> rest.left]

\* variant: the tool results are visited from the newest message back
RECURSIVE FilterMessages_NewestFirst(_, _)
FilterMessages_NewestFirst(msgs, to_remove) ==
    IF msgs = <<>> THEN <<>>
    ELSE LET message == msgs[Len(msgs)]
             filtered == IF message.is_list
                         THEN FilterBlocks(message.content, to_remove)
                         ELSE [content |-> message.content, left |-> to_remove] IN
         FilterMessages_NewestFirst(SubSeq(msgs, 1, Len(msgs) - 1), filtered.left)
         \o <<[message EXCEPT !.content = filtered.content]>>

\* the tool results are visited message by message, oldest first
RECURSIVE FilterMessages(_, _)
FilterMessages(msgs, to_remove) ==
    IF msgs = <<>> THEN <<>>
    ELSE LET message == Head(msgs)
             filtered == IF message.is_list
                         THEN FilterBlocks(message.content, to_remove)
                         ELSE [content |-> message.content, left |-> to_remove] IN
         <<[message EXCEPT !.content = filtered.content]>>
         \o FilterMessages(Tail(msgs), filtered.left)

\* _maybe_filter_to_n_most_recent_images with an integer images_to_keep:
\* the messages as the call leaves them
maybe_filter_to_n_most_recent_images(msgs, images_to_keep, min_removal_threshold) ==
    FilterMessages(msgs,
                   images_to_remove(total_images(tool_result_blocks(msgs)),
                                    images_to_keep, min_removal_threshold))

NoFilterCall ==
    [called |-> FALSE, images_to_keep |-> 0, min_removal_threshold |-> 0,
     total_images |-> 0]

\* one call of the filter on the history, which it changes in place
FilterImages(images_to_keep, min_removal_threshold) ==
    /\ ~filter_call.called
    /\ filter_messages' =
           maybe_filter_to_n_most_recent_images(filter_messages, images_to_keep,
                                                min_removal_threshold)
    /\ filter_call' = [called |-> TRUE, images_to_keep |-> images_to_keep,
                       min_removal_threshold |-> min_removal_threshold,
                       total_images |-> total_images(tool_result_blocks(filter_messages))]
    /\ UNCHANGED <<programVars, credVars, heartbeatVars, faultVars, cachingVars, retention>>

\* ------------------------------------- the retention step of an iteration
\* `only_n_most_recent_images = 90` under prompt caching
CACHED_IMAGES_TO_KEEP == 90

\* only_n_most_recent_images: int | None = None
NoneValue == [is_none |-> TRUE, n |-> 0]
IntValue(n) == [is_none |-> FALSE, n |-> n]
RetentionSettings == {NoneValue} \cup {IntValue(n) : n \in 0..MaxKeep}

\* APIProvider
Providers == {"anthropic", "bedrock", "vertex"}

\* `x or 0`
OrZero(x) == IF x.is_none THEN 0 ELSE x.n

\* truth value of an `int | None`
Truthy(x) == ~x.is_none /\ x.n # 0

\* `images_to_remove % min_removal_threshold` raises ZeroDivisionError when
\* the threshold is 0, whatever the number of images
filter_raises(images_to_keep, min_removal_threshold) == min_removal_threshold = 0

NoRetention ==
    [done |-> FALSE, only_n |-> NoneValue, provider |-> "none",
     min_removal_threshold |-> 0, images_to_keep |-> NoneValue,
     called |-> FALSE, raised |-> FALSE]

\* the part of an iteration between the status check and the model call:
\* image_truncation_threshold = only_n_most_recent_images or 0; the Anthropic
\* provider turns prompt caching on, which sets only_n_most_recent_images to
\* 90; `if only_n_most_recent_images:` the filter is called with that count
\* and the threshold (outside any try/except but the loop's `finally:`)
ImageRetention(only_n, provider) ==
    /\ ~retention.done
    /\ ~filter_call.called
    /\ LET image_truncation_threshold == OrZero(only_n)
           enable_prompt_caching == provider = "anthropic"
           images_to_keep == IF enable_prompt_caching
                             THEN IntValue(CACHED_IMAGES_TO_KEEP) ELSE only_n
           called == Truthy(images_to_keep)
           raised == called /\ filter_raises(images_to_keep.n,
                                             image_truncation_threshold) IN
       /\ filter_messages' =
              IF called /\ ~raised
              THEN maybe_filter_to_n_most_recent_images(
                       filter_messages, images_to_keep.n, image_truncation_threshold)
              ELSE filter_messages
       /\ retention' = [done |-> TRUE, only_n |-> only_n, provider |-> provider,
                        min_removal_threshold |-> image_truncation_threshold,
                        images_to_keep |-> images_to_keep,
                        called |-> called, raised |-> raised]
    /\ UNCHANGED <<programVars, credVars, heartbeatVars, faultVars, cachingVars, filter_call>>

\* ----------------------------------------------------------- prompt caching
MaxUserMessages == 6
MaxContentItems == 2

\* `breakpoints_remaining = 3`
BREAKPOINTS == 3

\* a content item and whether it carries "cache_control"
ContentItem(cache_control) == [cache_control |-> cache_control]

\* a message of the conversation whose content is a list of `items` new items
NewMessage(role, items) ==
    [role |-> role, is_list |-> TRUE,
     content |-> [i \in 1..items |-> ContentItem(FALSE)]]

\* `content[-1]["cache_control"] = {"type": "ephemeral"}`
SetBreakpoint(content) ==
    [content EXCEPT ![Len(content)] = ContentItem(TRUE)]

\* variant: the breakpoint of the extra turn is left in place
StripBreakpoint_Keeps(content) == content

\* `if "cache_control" in content[-1]: del content[-1]["cache_control"]`
StripBreakpoint(content) ==
    [content EXCEPT ![Len(content)] = ContentItem(FALSE)]

\* `for message in reversed(messages)`, from messages[i] down: user messages
\* with list content take a breakpoint while breakpoints_remaining, the
\* next one loses its breakpoint and the scan stops
RECURSIVE InjectFrom(_, _, _)
InjectFrom(msgs, i, breakpoints_remaining) ==
    IF i = 0 THEN msgs
    ELSE IF msgs[i].role = "user" /\ msgs[i].is_list
         THEN IF breakpoints_remaining > 0
              THEN InjectFrom([msgs EXCEPT ![i].content = SetBreakpoint(@)],
                              i - 1, breakpoints_remaining - 1)
              ELSE [msgs EXCEPT ![i].content = StripBreakpoint(@)]
         ELSE InjectFrom(msgs, i - 1, breakpoints_remaining)

\* _inject_prompt_caching(messages)
inject_prompt_caching(msgs) == InjectFrom(msgs, Len(msgs), BREAKPOINTS)

\* indices of the user-role messages, oldest first
UserIndices(msgs) == {i \in 1..Len(msgs) : msgs[i].role = "user"}

\* `if enable_prompt_caching: _inject_prompt_caching(messages)` at the top
\* of an iteration
InjectPromptCaching ==
    /\ cache_phase = "inject"
    /\ cache_messages' = inject_prompt_caching(cache_messages)
    /\ cache_phase' = "turn"
    /\ UNCHANGED <<programVars, credVars, filterVars, heartbeatVars, faultVars>>

\* the rest of the iteration: the assistant message is appended, then one
\* user message (the tool results, or the log prompt with its single item)
CachedTurn(result_items) ==
    /\ cache_phase = "turn"
    /\ Cardinality(UserIndices(cache_messages)) < MaxUserMessages
    /\ cache_messages' = cache_messages
           \o <<NewMessage("assistant", 1),
                NewMessage("user", result_items)>>
    /\ cache_phase' = "inject"
    /\ UNCHANGED <<programVars, credVars, filterVars, heartbeatVars, faultVars>>

\* ------------------------------------------------------ heartbeat tracker
MaxMinInterval == 3
MaxClock == 7
MaxBeats == 4

\* HeartbeatTracker.__init__: last_beat starts at 0
HeartbeatTracker(min_interval) ==
    [min_interval |-> min_interval, last_beat |-> 0]

\* variant: the rate limit is not applied
ShouldBeat_Always(now, last_beat, min_interval) == TRUE

\* `if now - self.last_beat >= self.min_interval`
ShouldBeat(now, last_beat, min_interval) ==
    now - last_beat >= min_interval

NoHeartbeatCalls == [beat |-> 0, update |-> 0, raised |-> 0]

\* variant: _update has no `try:`, a failing UPDATE leaves it as an exception
HeartbeatUpdate_Propagates(update_outcome) ==
    [written |-> update_outcome = "ok", raised |-> update_outcome # "ok"]

\* HeartbeatTracker._update: the UPDATE is committed, or fails inside
\* `try:` and `except Exception` logs a warning; either way it returns
HeartbeatUpdate(update_outcome) ==
    [written |-> update_outcome = "ok", raised |-> FALSE]

\* HeartbeatTracker.beat: when the interval has passed, _update writes the
\* current time to last_heartbeat_at and, once _update has returned,
\* last_beat becomes `now`; an exception of _update would leave beat before
\* that assignment
Beat(update_outcome) ==
    /\ hb_calls.beat < MaxBeats
    /\ hb_calls.raised = 0
    /\ LET now == hb_clock
           update == HeartbeatUpdate(update_outcome) IN
       IF ShouldBeat(now, hb_tracker.last_beat, hb_tracker.min_interval)
       THEN /\ hb_writes' = IF update.written THEN Append(hb_writes, hb_clock)
                            ELSE hb_writes
            /\ hb_tracker' = IF update.raised THEN hb_tracker
                             ELSE [hb_tracker EXCEPT !.last_beat = now]
            /\ hb_calls' = [beat |-> hb_calls.beat + 1,
                            update |-> hb_calls.update + 1,
                            raised |-> IF update.raised THEN hb_calls.raised + 1
                                       ELSE hb_calls.raised]
       ELSE /\ hb_calls' = [hb_calls EXCEPT !.beat = @ + 1]
            /\ UNCHANGED <<hb_writes, hb_tracker>>
    /\ UNCHANGED <<programVars, credVars, filterVars, faultVars, cachingVars, hb_clock>>

\* a second passes
ClockTick ==
    /\ hb_clock < MaxClock
    /\ hb_clock' = hb_clock + 1
    /\ UNCHANGED <<programVars, credVars, filterVars, faultVars, cachingVars, hb_tracker,
                   hb_writes, hb_calls>>

\* -------------------------------------------------------- CredentialsTool
MaxLines == 2
MaxCalls == 4

\* the slugs of the credentials the broker serves
Slugs == {"s1", "s2"}

\* the lines of a configured backup_codes string: a code, a code with
\* surrounding blanks, an empty line
CodeLines == {"A", "B", " A ", ""}

NoCredentials == [slug \in Slugs |-> <<>>]

\* `self._used_backup_codes: dict[str, set] = {}`, read with .get(slug, set())
NoUsedCodes == [slug \in Slugs |-> {}]

\* str.strip() of a line
strip(line) == IF line = " A " THEN "A" ELSE line

\* `not backup_codes_str`: the lines joined by "\n" are the empty string
IsEmptyString(lines) == lines = <<>> \/ lines = <<"">>

\* [c.strip() for c in backup_codes_str.strip().split("\n") if c.strip()]
all_codes(lines) ==
    SelectSeq([i \in 1..Len(lines) |-> strip(lines[i])], LAMBDA c : c # "")

\* [c for c in all_codes if c not in used_codes]
available_codes(codes, used_codes) ==
    SelectSeq(codes, LAMBDA c : c \notin used_codes)

\* variant: the code handed out is not recorded
mark_used_Forgets(used, slug, code) == used

\* self._used_backup_codes[slug].add(code)
mark_used(used, slug, code) == [used EXCEPT ![slug] = @ \cup {code}]

CodeResult(slug, code) == [slug |-> slug, error |-> "none", code |-> code]
ErrorResult(slug, error) == [slug |-> slug, error |-> error, code |-> "NULL"]

\* _get_backup_code behind __call__: the cache is fetched unless loaded (a
\* failed fetch raises ToolError, which __call__ turns into an error result),
\* then the first configured code not yet in the used set is marked and returned
get_backup_code(broker, loaded, used, slug, fetch_ok) ==
    IF ~loaded /\ ~fetch_ok
    THEN [loaded |-> FALSE, used |-> used,
          result |-> ErrorResult(slug, "operation_failed")]
    ELSE IF slug \notin DOMAIN broker
    THEN [loaded |-> TRUE, used |-> used, result |-> ErrorResult(slug, "not_found")]
    ELSE IF IsEmptyString(broker[slug])
    THEN [loaded |-> TRUE, used |-> used,
          result |-> ErrorResult(slug, "not_configured")]
    ELSE LET available == available_codes(all_codes(broker[slug]), used[slug]) IN
         IF available = <<>>
         THEN [loaded |-> TRUE, used |-> used,
               result |-> ErrorResult(slug, "all_used")]
         ELSE [loaded |-> TRUE, used |-> mark_used(used, slug, available[1]),
               result |-> CodeResult(slug, available[1])]

\* credentials(action="backup_code", slug=slug) on the one tool instance
BackupCode(slug, fetch_ok) ==
    /\ Len(cred_results) < MaxCalls
    /\ cred_loaded => fetch_ok
    /\ LET call == get_backup_code(cred_broker, cred_loaded, used_backup_codes,
                                   slug, fetch_ok) IN
       /\ cred_loaded' = call.loaded
       /\ used_backup_codes' = call.used
       /\ cred_results' = Append(cred_results, call.result)
    /\ UNCHANGED <<programVars, filterVars, heartbeatVars, faultVars, cachingVars,
                   cred_broker>>

\* ---------------------------------------------------------- specification
InitProgram ==
    /\ status = [a \in Agents |-> "none"]
    /\ spawn = NoSpawn
    /\ session = "none"
    /\ delete_requests = {}
    /\ exit_log = [a \in Agents |-> "none"]
    /\ pc = [a \in Agents |-> "idle"]
    /\ loop_args = [a \in Agents |-> [spawn_id |-> FALSE, cleanup_on_complete |-> FALSE]]
    /\ iteration = [a \in Agents |-> 0]
    /\ prompted_for_log = [a \in Agents |-> FALSE]
    /\ final_status = [a \in Agents |-> "running"]
    /\ current_status = [a \in Agents |-> "NULL"]
    /\ messages = [a \in Agents |-> <<>>]
    /\ blocks = [a \in Agents |-> <<>>]
    /\ tool_result_content = [a \in Agents |-> <<>>]
    /\ stored = [a \in Agents |-> <<>>]
    /\ api_result = [a \in Agents |-> NoApiResult]
    /\ model_calls = [a \in Agents |-> 0]
    /\ finalize_steps = [a \in Agents |-> <<>>]
    /\ loop_writes = [a \in Agents |-> <<>>]
    /\ sentinel_seen = [a \in Agents |-> FALSE]
    /\ sp = IdleCall
    /\ elapsed = 0
    /\ cleanup_task = "none"

\* no call of the functions followed on their own
InitUnits ==
    /\ filter_messages = <<>>
    /\ filter_call = NoFilterCall
    /\ retention = NoRetention
    /\ cred_broker = NoCredentials
    /\ cred_loaded = FALSE
    /\ used_backup_codes = NoUsedCodes
    /\ cred_results = <<>>
    /\ hb_tracker = HeartbeatTracker(0)
    /\ hb_clock = 0
    /\ hb_writes = <<>>
    /\ hb_calls = NoHeartbeatCalls
    /\ message_store = "up"
    /\ broker_link = "up"
    /\ cache_messages = <<>>
    /\ cache_phase = "idle"

Init == InitProgram /\ InitUnits

Next ==
    \/ \E c \in BOOLEAN : ProcessMessage(c)
    \/ \E a \in Agents : ControllerStop(a)
    \/ \E a \in Agents : ControllerPause(a)
    \/ \E a \in Agents : CheckStatus(a)
    \/ \E a \in Agents : CheckStatusFails(a)
    \/ \E a \in Agents : WriteStatus(a)
    \/ \E a \in Agents : \E r \in Responses(a) : CallApi(a, r)
    \/ \E a \in Agents : \E e \in {"APIError", "Exception"} : CallApiFails(a, e)
    \/ \E a \in Agents : \E o \in {"ok", "error"} : RunTool(a, o)
    \/ \E w \in BOOLEAN, c \in BOOLEAN, m \in 1..MaxTimeoutMinutes :
           StartSpawn("parent", w, c, m)
    \/ \E code \in {201, 409, 500} : CreateSession(code)
    \/ CreateSessionRaises
    \/ \E r \in BOOLEAN : WaitForReady(r)
    \/ \E h \in BOOLEAN : WaitForApiHealth(h)
    \/ DispatchAccepted
    \/ DispatchRejected
    \/ DispatchTimesOut
    \/ UpdateRunning
    \/ \E o \in {"ok", "non_success", "raises"} : PollParent(o)
    \/ CancelPatch
    \/ CancelDelete
    \/ \E o \in {"ok", "non_success"} : PollChild(o)
    \/ \E m \in {0, 1} : PollSleep(m)
    \/ UpdateCancelled
    \/ UpdateCompleted
    \/ CleanupTaskRun
    \/ PodKilled
    \/ \E a \in Agents : AfterTools(a)
    \/ \E a \in Agents : Finally(a)
    \/ \E a \in Agents : \E o \in DeleteOutcomes : FinallyCleanup(a, o)

Spec == Init /\ [][Next]_vars

\* ------------------------------------------- failing spawn-record writes
\* positions of __call__ at which the next statement is a write of the
\* spawn record inside the big `try:` (update_spawn, or _update_spawn_failed
\* of a failure return)
SpawnWritePcs ==
    {"wait_ready", "wait_health", "dispatch",
     "update_running", "update_cancelled", "update_completed"}

\* `except Exception` of __call__ once a statement of the `try:` has raised:
\* _update_spawn_failed runs first; when that write raises too
\* (failure_recorded = FALSE) the exception leaves __call__ and the loop turns
\* it into an error tool result; otherwise the session is left alone when
\* the sub-agent has started without cleanup_on_complete, and is cleaned up
\* by _cleanup_session(session_id, sub_conversation_id) in every other case
\* (the requests of that clean-up are taken with the handler, as one step)
ExceptionHandler(failure_recorded, session_now) ==
    IF ~failure_recorded
    THEN /\ sp' = Returned(sp, "raised", "Tool execution failed")
         /\ ReturnToLoop("error")
         /\ session' = session_now
         /\ UNCHANGED <<status, spawn, delete_requests>>
    ELSE /\ spawn' = update_spawn(spawn, "NULL", "failed")
         /\ sp' = Returned(sp, "error", "failed")
         /\ ReturnToLoop("error")
         /\ IF sp.sub_agent_started /\ ~sp.cleanup_on_complete
            THEN /\ session' = session_now
                 /\ UNCHANGED <<status, delete_requests>>
            ELSE /\ status' = IF sp.sub_conversation_id = "NULL" THEN status
                              ELSE update_status(status, sp.sub_conversation_id,
                                                 "cancelled")
                 /\ session' = DeleteSession(session_now)
                 /\ delete_requests' = delete_requests \cup {"spawner"}

\* POST /sessions is answered 201 and update_spawn(pod_name) raises
PodNameWriteRaises(failure_recorded) ==
    /\ sp.pc = "post_session"
    /\ ExceptionHandler(failure_recorded, "created")
    /\ UNCHANGED <<elapsed, cleanup_task>>
    /\ UNCHANGED unitVars

\* POST /sessions raises and the handler's _update_spawn_failed raises too
HandlerWriteRaises ==
    /\ sp.pc = "post_session"
    /\ ExceptionHandler(FALSE, session)
    /\ UNCHANGED <<elapsed, cleanup_task>>
    /\ UNCHANGED unitVars

\* a later write of the spawn record raises: _update_spawn_failed of a
\* readiness, health or dispatch failure, or update_spawn with status
\* running, cancelled or completed
SpawnWriteRaises(failure_recorded) ==
    /\ sp.pc \in SpawnWritePcs
    /\ ExceptionHandler(failure_recorded, session)
    /\ UNCHANGED <<elapsed, cleanup_task>>
    /\ UNCHANGED unitVars

NextSpawnFaults ==
    \/ Next
    \/ \E r \in BOOLEAN : PodNameWriteRaises(r)
    \/ HandlerWriteRaises
    \/ \E r \in BOOLEAN : SpawnWriteRaises(r)

\* the program with a conversation store whose spawn-record writes may fail
SpecSpawnFaults == Init /\ [][NextSpawnFaults]_vars

\* ------------------------------------------- one sampling loop on its own
MaxToolBlocks == 2

\* responses of a model that only asks for ordinary tools
ToolResponses == SeqsUpTo({"tool"}, MaxToolBlocks)

\* the top-level loop with no sub-agent: its tools return, fail or raise
NextToolLoop ==
    \/ \E c \in BOOLEAN : ProcessMessage(c)
    \/ ControllerStop("parent")
    \/ ControllerPause("parent")
    \/ CheckStatus("parent")
    \/ CheckStatusFails("parent")
    \/ WriteStatus("parent")
    \/ \E r \in ToolResponses : CallApi("parent", r)
    \/ \E e \in {"APIError", "Exception"} : CallApiFails("parent", e)
    \/ \E o \in {"ok", "error", "raises"} : RunTool("parent", o)
    \/ AfterTools("parent")
    \/ Finally("parent")

SpecToolLoop == Init /\ [][NextToolLoop]_vars

\* ------------------------ one sampling loop whose conversation row can go
\* the row of a running conversation is deleted from computer_use_chats by
\* another client of the database (the loop itself never deletes it)
ConversationDeleted(a) ==
    /\ pc[a] \notin {"idle", "done"}
    /\ status[a] # "none"
    /\ status' = [status EXCEPT ![a] = "none"]
    /\ UNCHANGED <<spawn, brokerVars, loopVars, historyVars, spawnerVars>>
    /\ UNCHANGED unitVars

NextMissingRow ==
    \/ NextToolLoop
    \/ ConversationDeleted("parent")

\* the top-level loop when the status SELECT can find no row
SpecMissingRow == Init /\ [][NextMissingRow]_vars

\* ------------------------------ one sampling loop on a store that can fail
InitStoreFaults ==
    /\ InitProgram
    /\ filter_messages = <<>>
    /\ filter_call = NoFilterCall
    /\ retention = NoRetention
    /\ cred_broker = NoCredentials
    /\ cred_loaded = FALSE
    /\ used_backup_codes = NoUsedCodes
    /\ cred_results = <<>>
    /\ hb_tracker = HeartbeatTracker(0)
    /\ hb_clock = 0
    /\ hb_writes = <<>>
    /\ hb_calls = NoHeartbeatCalls
    /\ message_store = "faulty"
    /\ broker_link = "up"
    /\ cache_messages = <<>>
    /\ cache_phase = "idle"

\* the top-level loop when any write of a message or of the API log can raise
SpecStoreFaults == InitStoreFaults /\ [][NextToolLoop]_vars

\* ------------------------- the program on a broker whose DELETE can fail
InitBrokerFaults ==
    /\ InitProgram
    /\ filter_messages = <<>>
    /\ filter_call = NoFilterCall
    /\ retention = NoRetention
    /\ cred_broker = NoCredentials
    /\ cred_loaded = FALSE
    /\ used_backup_codes = NoUsedCodes
    /\ cred_results = <<>>
    /\ hb_tracker = HeartbeatTracker(0)
    /\ hb_clock = 0
    /\ hb_writes = <<>>
    /\ hb_calls = NoHeartbeatCalls
    /\ message_store = "up"
    /\ broker_link = "faulty"
    /\ cache_messages = <<>>
    /\ cache_phase = "idle"

\* the whole program when the sub-agent's self-cleanup request can fail
SpecBrokerFaults == InitBrokerFaults /\ [][Next]_vars

\* ------------------------------------- the cache breakpoints of one loop
\* process_message hands the loop the task as one user message with a
\* single text item (message_store is never filled, so there is no history)
InitPromptCaching ==
    /\ InitProgram
    /\ filter_messages = <<>>
    /\ filter_call = NoFilterCall
    /\ retention = NoRetention
    /\ cred_broker = NoCredentials
    /\ cred_loaded = FALSE
    /\ used_backup_codes = NoUsedCodes
    /\ cred_results = <<>>
    /\ hb_tracker = HeartbeatTracker(0)
    /\ hb_clock = 0
    /\ hb_writes = <<>>
    /\ hb_calls = NoHeartbeatCalls
    /\ message_store = "up"
    /\ broker_link = "up"
    /\ cache_messages = <<NewMessage("user", 1)>>
    /\ cache_phase = "inject"

NextPromptCaching ==
    \/ InjectPromptCaching
    \/ \E t \in 1..MaxContentItems : CachedTurn(t)

SpecPromptCaching == InitPromptCaching /\ [][NextPromptCaching]_vars

\* ------------------------------------------------ the image filter alone
InitImageFilter ==
    /\ InitProgram
    /\ filter_messages \in Histories
    /\ filter_call = NoFilterCall
    /\ retention = NoRetention
    /\ cred_broker = NoCredentials
    /\ cred_loaded = FALSE
    /\ used_backup_codes = NoUsedCodes
    /\ cred_results = <<>>
    /\ hb_tracker = HeartbeatTracker(0)
    /\ hb_clock = 0
    /\ hb_writes = <<>>
    /\ hb_calls = NoHeartbeatCalls
    /\ message_store = "up"
    /\ broker_link = "up"
    /\ cache_messages = <<>>
    /\ cache_phase = "idle"

NextImageFilter ==
    \E k \in 0..MaxKeep, h \in 1..MaxThreshold : FilterImages(k, h)

\* the filter applied once to each history, keep count and chunk size
SpecImageFilter == InitImageFilter /\ [][NextImageFilter]_vars

NextImageRetention ==
    \E n \in RetentionSettings, p \in Providers : ImageRetention(n, p)

\* the retention step of one iteration, for each history, setting and provider
SpecImageRetention == InitImageFilter /\ [][NextImageRetention]_vars

\* ------------------------------------------- the heartbeat tracker alone
\* a tracker is constructed with some min_interval; the clock counts seconds
\* since 1970, so it is past min_interval when the tracker is built
InitHeartbeat ==
    /\ InitProgram
    /\ filter_messages = <<>>
    /\ filter_call = NoFilterCall
    /\ retention = NoRetention
    /\ cred_broker = NoCredentials
    /\ cred_loaded = FALSE
    /\ used_backup_codes = NoUsedCodes
    /\ cred_results = <<>>
    /\ \E i \in 1..MaxMinInterval : hb_tracker = HeartbeatTracker(i)
    /\ hb_clock \in hb_tracker.min_interval..MaxClock
    /\ hb_writes = <<>>
    /\ hb_calls = NoHeartbeatCalls
    /\ message_store = "up"
    /\ broker_link = "up"
    /\ cache_messages = <<>>
    /\ cache_phase = "idle"

NextHeartbeat ==
    \/ \E o \in {"ok", "fails"} : Beat(o)
    \/ ClockTick

SpecHeartbeat == InitHeartbeat /\ [][NextHeartbeat]_vars

\* ------------------------------------------- the credentials tool alone
\* a tool instance as __init__ leaves it; the broker serves one credential
\* with any backup_codes string and one with none or with two codes
InitCredentials ==
    /\ InitProgram
    /\ filter_messages = <<>>
    /\ filter_call = NoFilterCall
    /\ retention = NoRetention
    /\ hb_tracker = HeartbeatTracker(0)
    /\ hb_clock = 0
    /\ hb_writes = <<>>
    /\ hb_calls = NoHeartbeatCalls
    /\ message_store = "up"
    /\ broker_link = "up"
    /\ cache_messages = <<>>
    /\ cache_phase = "idle"
    /\ \E first \in SeqsUpTo(CodeLines, MaxLines), second \in {<<>>, <<"A", "B">>} :
           cred_broker = [slug \in Slugs |-> IF slug = "s1" THEN first ELSE second]
    /\ cred_loaded = FALSE
    /\ used_backup_codes = NoUsedCodes
    /\ cred_results = <<>>

NextCredentials ==
    \E slug \in Slugs \cup {"unknown"}, fetch_ok \in BOOLEAN : BackupCode(slug, fetch_ok)

SpecCredentials == InitCredentials /\ [][NextCredentials]_vars

\* ------------------------------------------------------------------ claims
\* positions of a loop between its decision to exit and the end of `finally:`
ExitPcs == {"write_status", "finally", "finally_cleanup"}

\* the loop wrote a status in this step
LoopWrote(a) == loop_writes'[a] # loop_writes[a]

\* the loop made a model call in this step
ModelCalled(a) == model_calls'[a] # model_calls[a]

\* what holds of a loop whose status read at the top of the iteration was
\* `read`, which makes it exit with `written`
ExitAfterRead(a, read, written) ==
    current_status[a] = read =>
        /\ pc[a] \in ExitPcs
        /\ final_status[a] = written
        /\ model_calls[a] = iteration[a] - 1
        /\ IF pc[a] = "write_status" THEN loop_writes[a] = <<>>
           ELSE loop_writes[a] = <<written>>

\* a step taken by a loop whose read was `read`: what the loop writes is
\* `written`, and it makes no model call
ExitStepAfterRead(a, read, written) ==
    current_status[a] = read =>
        /\ LoopWrote(a) =>
               /\ loop_writes'[a] = Append(loop_writes[a], written)
               /\ status'[a] = written
        /\ ~ModelCalled(a)

C1_StopReadInv == \A a \in Agents : ExitAfterRead(a, "stopping", "cancelled")

C1_StopReadStep ==
    \A a \in Agents :
        /\ ExitStepAfterRead(a, "stopping", "cancelled")
        /\ (current_status[a] = "stopping" /\ status'[a] # status[a]) =>
               status'[a] = "cancelled"
        /\ (pc[a] \in ExitPcs \cup {"done"}) => ~ModelCalled(a)

\* C1: a loop that reads `stopping` at the top of an iteration persists
\* `cancelled` as the conversation's next status and makes no model call in
\* that iteration or afterwards
C1_StoppingBecomesCancelled == []C1_StopReadInv /\ [][C1_StopReadStep]_vars

C1_Witness ==
    \E a \in Agents :
        /\ current_status[a] = "stopping"
        /\ pc[a] = "finally"
        /\ status[a] = "cancelled"
        /\ model_calls[a] >= 1

C2_PauseReadInv == \A a \in Agents : ExitAfterRead(a, "pausing", "paused")

C2_PauseReadStep ==
    \A a \in Agents :
        /\ ExitStepAfterRead(a, "pausing", "paused")
        /\ (current_status[a] = "pausing" /\ pc'[a] # pc[a]) =>
               pc'[a] \in ExitPcs \cup {"done", "killed"}

C3_SentinelEndsCancelled ==
    \A a \in Agents :
        (sentinel_seen[a] /\ pc[a] = "done") => status[a] = "cancelled"

\* positions of the spawner between reading a cancelling parent status and
\* returning
CancelPcs == {"cancel_patch", "cancel_delete", "update_cancelled", "returned"}

C4_ParentFirstInv ==
    /\ sp.pc = "poll_child" => sp.parent_seen \notin {"NULL", "stopping"}
    /\ sp.parent_seen = "stopping" => sp.pc \in CancelPcs
    /\ (sp.parent_seen = "stopping" /\ sp.pc \in {"update_cancelled", "returned"}) =>
           /\ "spawner" \in delete_requests
           /\ session = "deleted"
    /\ (sp.parent_seen = "stopping" /\ sp.pc = "update_cancelled") =>
           sp.final_result = CANCELLED_BY_USER
    /\ (sp.parent_seen = "stopping" /\ sp.pc = "returned") =>
           sp.result = CANCELLED_BY_USER

C4_ParentFirstStep ==
    (sp.parent_seen = "stopping" /\ sp.pc = "cancel_patch" /\ sp'.pc # sp.pc) =>
        status'["child"] = "cancelled"

\* C4: each poll iteration reads the parent's status before the child's; a
\* poll that reads `stopping` forces the child conversation to `cancelled`,
\* requests the session's deletion and returns the cancellation sentinel,
\* whatever the child's status is by then
C4_StoppingParentCancelsChild == []C4_ParentFirstInv /\ [][C4_ParentFirstStep]_vars

C4_Witness ==
    /\ sp.pc = "returned"
    /\ sp.parent_seen = "stopping"
    /\ sp.result = CANCELLED_BY_USER
    /\ loop_writes["child"] = <<"completed">>
    /\ status["child"] = "cancelled"

\* the steps of `finally:` a loop launched with these arguments runs
ExpectedFinalization(a) ==
    <<"memory">>
    \o (IF loop_args[a].spawn_id THEN <<"spawn">> ELSE <<>>)
    \o (IF loop_args[a].cleanup_on_complete THEN <<"cleanup">> ELSE <<>>)

IsPrefix(s, t) == Len(s) <= Len(t) /\ SubSeq(t, 1, Len(s)) = s

\* C5: each loop invocation runs its finalization once, each step once and
\* in order, whichever way the loop was left
C5_FinalizationOnce ==
    \A a \in Agents :
        /\ IsPrefix(finalize_steps[a], ExpectedFinalization(a))
        /\ pc[a] \in {"idle", "check", "call_api", "tools", "in_tool",
                      "write_status", "finally"} => finalize_steps[a] = <<>>
        /\ pc[a] = "finally_cleanup" =>
               Append(finalize_steps[a], "cleanup") = ExpectedFinalization(a)
        /\ pc[a] = "done" =>
               /\ finalize_steps[a] = ExpectedFinalization(a)
               /\ exit_log[a] # "none"

C5_Witness ==
    /\ pc["parent"] = "done"
    /\ sentinel_seen["parent"]
    /\ finalize_steps["parent"] = <<"memory">>
    /\ pc["child"] = "done"
    /\ exit_log["child"] = "failed"
    /\ finalize_steps["child"] = <<"memory", "spawn", "cleanup">>

\* C6: a spawn record whose status is completed, failed or cancelled is not
\* written again
C6_TerminalSpawnImmutable ==
    [][spawn.status \in TerminalSpawnStatuses => spawn' = spawn]_vars

\* C7: a loop never writes a different status to its conversation once the
\* conversation's status is terminal
C7_NoWriteAfterTerminal ==
    [][\A a \in Agents :
          (status[a] \in TerminalStatuses /\ LoopWrote(a)) =>
              status'[a] = status[a]]_vars

\* C8: the completion poll goes on only while the time waited is below the
\* caller's timeout
C8_PollWithinTimeout ==
    sp.pc \in {"poll_parent", "poll_child"} =>
        elapsed * SECONDS_PER_MINUTE < sp.timeout_minutes * SECONDS_PER_MINUTE

\* the loop is about to leave the `for content_block` loop of a response
\* that carried no tool_use block
ZeroToolResponse(a) ==
    /\ pc[a] = "tools"
    /\ messages[a][Len(messages[a])] = "assistant"
    /\ blocks[a] = <<>>
    /\ tool_result_content[a] = <<>>
    /\ ~sentinel_seen[a]

C9_LogPromptInv ==
    \A a \in Agents :
        /\ CountOf(messages[a], "log_prompt") <= 1
        /\ prompted_for_log[a] <=> CountOf(messages[a], "log_prompt") = 1

C9_LogPromptStep ==
    \A a \in Agents :
        (ZeroToolResponse(a) /\ pc'[a] \notin {"tools", "killed"}) =>
            /\ CountOf(messages[a], "log_prompt") = 0 =>
                   /\ messages'[a] = Append(messages[a], "log_prompt")
                   /\ pc'[a] = "check"
                   /\ status'[a] = status[a]
                   /\ ~LoopWrote(a)
            /\ messages[a][Len(messages[a]) - 1] = "log_prompt" =>
                   /\ status'[a] = "completed"
                   /\ loop_writes'[a] = Append(loop_writes[a], "completed")
                   /\ pc'[a] = "finally"
                   /\ messages'[a] = messages[a]

\* C9: the first response without a tool_use block makes the loop append one
\* log prompt and go on; a response without a tool_use block right after the
\* prompt sets the status to completed and ends the loop; the messages never
\* hold two log prompts
C9_LogPromptOnce == []C9_LogPromptInv /\ [][C9_LogPromptStep]_vars

C9_Witness ==
    \E a \in Agents :
        /\ pc[a] = "finally"
        /\ status[a] = "completed"
        /\ messages[a] = <<"user", "assistant", "log_prompt", "assistant">>

\* C10: when a spawn_subagent call returns anything but the fire-and-forget
\* result, its spawn record is in a terminal status
C10_ReturnLeavesTerminalRecord ==
    [][(sp.pc # "returned" /\ sp'.pc = "returned" /\ sp'.result # "spawned") =>
           spawn'.status \in TerminalSpawnStatuses]_vars

\* the call was answered 409 by POST /sessions
ConflictReturned == sp.pc = "returned" /\ sp.error = "session already exists"

C11_ConflictInv ==
    ConflictReturned =>
        /\ sp.result = "error"
        /\ session = "none"
        /\ delete_requests = {}
        /\ status["child"] = "none"
        /\ pc["child"] = "idle"
        /\ cleanup_task = "none"

C11_ConflictStep ==
    /\ (sp.pc = "post_session" /\ sp'.error = "session already exists") =>
           /\ sp'.pc = "returned"
           /\ status' = status
           /\ brokerVars' = brokerVars
           /\ spawn' = spawn
    /\ ConflictReturned => (sp' = sp /\ brokerVars' = brokerVars)

\* C11: a spawn_subagent call whose session creation is answered 409 returns
\* an error result at once: it does not post again, sends no readiness,
\* health, dispatch, status or deletion request then or later, and leaves
\* the parent's conversation status as it was
C11_ConflictReturnsAtOnce == []C11_ConflictInv /\ [][C11_ConflictStep]_vars

C11_Witness ==
    /\ ConflictReturned
    /\ pc["parent"] = "check"
    /\ messages["parent"] = <<"user", "assistant", "tool_results">>
    /\ status["parent"] = "running"

\* ---------------------------------------------------------------- C12
\* roles that may follow a stored row in the loop's turn order: an assistant
\* row follows a user row; tool results or a new user message follow an
\* assistant row; a user row or the next assistant row follows tool results;
\* the system row of an unexpected error may follow any row and ends the run
TurnSuccessors(role) ==
    CASE role = "user" -> {"assistant", "system"}
      [] role = "assistant" -> {"tool", "user", "system"}
      [] role = "tool" -> {"user", "assistant", "system"}
      [] role = "system" -> {}

C12_TurnOrderInv ==
    \A a \in Agents :
        /\ stored[a] # <<>> => stored[a][1].role = "user"
        /\ \A i \in 1..(Len(stored[a]) - 1) :
               stored[a][i + 1].role \in TurnSuccessors(stored[a][i].role)

\* while a loop runs, its rows are only appended
C12_AppendOnly ==
    \A a \in Agents :
        pc'[a] \notin {"idle", "done", "killed"} => IsPrefix(stored[a], stored'[a])

\* C12: the rows stored for a conversation follow the loop's turn order (a
\* user row, then an assistant row, then a tool-results row, repeating) and
\* are append-only: no stored row is ever rewritten or removed.
C12_StoredFollowsTurnOrder == []C12_TurnOrderInv /\ [][C12_AppendOnly]_vars

\* ---------------------------------------------------------------- C13
\* a step that replaces a persisted `stopping` ends the run as cancelled
\* (or as failed, when the run is ended by an error)
C13_StoppingReplaced ==
    \A a \in Agents :
        (status[a] = "stopping" /\ status'[a] # "stopping")
            => status'[a] \in {"cancelled", "failed"}

\* once `stopping` is persisted, the next status check of the loop leads to
\* no further model call
C13_NextCheckStops ==
    \A a \in Agents :
        (status[a] = "stopping" /\ pc[a] = "check" /\ pc'[a] # "check")
            => pc'[a] \in ExitPcs \cup {"done", "killed", "idle"}

\* C13: after the controller has set a running conversation to `stopping`,
\* the loop finishes at most the iteration in progress, starts no model call
\* after its next status check, and the run ends with status `cancelled`.
C13_StopEndsRunCancelled == [][C13_StoppingReplaced /\ C13_NextCheckStops]_vars

\* ---------------------------------------------------------------- C14
\* C14: a poll whose read of the parent's status shows `pausing` or `paused`
\* stops waiting: it cancels the child and returns the cancellation sentinel
\* instead of going on to ask for the child's status.
C14_PausedParentCancelsChild ==
    /\ sp.parent_seen \in {"pausing", "paused"} => sp.pc \in CancelPcs
    /\ (sp.parent_seen \in {"pausing", "paused"} /\ sp.pc = "returned") =>
           sp.result = CANCELLED_BY_USER

\* ---------------------------------------------------------------- C15
\* what a step of the spawner that writes the spawn record does when the
\* write succeeds
C15_Step ==
    /\ sp'.result # "raised"
    /\ (sp.pc = "update_running" /\ sp' # sp) =>
           \/ sp'.pc = "poll_parent"
           \/ sp'.pc = "returned" /\ sp'.result = "spawned"
    /\ (sp.pc = "update_cancelled" /\ sp' # sp) =>
           (sp'.pc = "returned" /\ sp'.result = CANCELLED_BY_USER)
    /\ (sp.pc = "update_completed" /\ sp' # sp) =>
           /\ sp'.pc = "returned" /\ sp'.result = "ok"
           /\ sp.cleanup_on_complete => cleanup_task' = "pending"

\* C15: a spawn-record write that raises inside the spawner never raises out
\* of the tool call, never changes the result the spawner returns and never
\* prevents the session clean-up of the exit path.
C15_FailingWriteIsHarmless == [][C15_Step]_vars

\* ---------------------------------------------------------------- C16
\* images the filter call has removed
ImagesRemoved ==
    filter_call.total_images - total_images(tool_result_blocks(filter_messages))

Max0(n) == IF n > 0 THEN n ELSE 0

\* C16: the filter never removes more than max(0, total_images - keep)
\* tool-result images, and the number removed is an exact multiple of the
\* chunk threshold, for every history, keep count and threshold >= 1.
C16_RemovalBoundedAndChunked ==
    filter_call.called =>
        /\ ImagesRemoved >= 0
        /\ ImagesRemoved <= Max0(filter_call.total_images - filter_call.images_to_keep)
        /\ ImagesRemoved % filter_call.min_removal_threshold = 0

C16_Witness ==
    /\ filter_call.called
    /\ ImagesRemoved > 0
    /\ ImagesRemoved < filter_call.total_images - filter_call.images_to_keep
    /\ filter_call.min_removal_threshold > 1

\* ---------------------------------------------------------------- C17
\* C17: for T tool-result images, keep count K and chunk threshold H >= 1 the
\* filter removes exactly max(0, T - K) rounded down to a multiple of H; with
\* T = 12, K = 5, H = 4 it removes 4 and leaves 8.
C17_RemovesRoundedDownSurplus ==
    filter_call.called =>
        LET surplus == Max0(filter_call.total_images - filter_call.images_to_keep) IN
        /\ ImagesRemoved = surplus - (surplus % filter_call.min_removal_threshold)
        /\ (/\ filter_call.total_images = 12
            /\ filter_call.images_to_keep = 5
            /\ filter_call.min_removal_threshold = 4) =>
               /\ ImagesRemoved = 4
               /\ total_images(tool_result_blocks(filter_messages)) = 8

C17_Witness ==
    /\ filter_call.called
    /\ filter_call.total_images = 12
    /\ filter_call.images_to_keep = 5
    /\ filter_call.min_removal_threshold = 4
    /\ total_images(tool_result_blocks(filter_messages)) = 8

\* ---------------------------------------------------------------- C18
C18_Inv ==
    /\ \A i, j \in 1..Len(hb_writes) :
           i < j => hb_writes[j] - hb_writes[i] >= hb_tracker.min_interval
    /\ hb_calls.beat >= 1 => hb_calls.update >= 1

C18_Step ==
    /\ IsPrefix(hb_writes, hb_writes')
    /\ (hb_writes # <<>> /\ hb_writes' # hb_writes) =>
           hb_writes'[Len(hb_writes')] >= hb_writes[Len(hb_writes)]
    /\ (hb_calls.beat = 0 /\ hb_calls'.beat = 1) => hb_calls'.update = 1

C19_ApiErrorInv ==
    \A a \in Agents :
        api_result[a].exception = "APIError" =>
            /\ api_result[a].callback = "error"
            /\ pc[a] \in {"finally", "finally_cleanup"}
            /\ loop_writes[a] # <<>>
            /\ loop_writes[a][Len(loop_writes[a])] = "failed"

C19_ApiErrorStep ==
    \A a \in Agents :
        /\ (api_result[a].exception # "APIError"
             /\ api_result'[a].exception = "APIError") =>
               /\ pc[a] = "call_api"
               /\ status'[a] = "failed"
        /\ api_result[a].exception = "APIError" =>
               /\ ~ModelCalled(a)
               /\ ~LoopWrote(a)
               /\ tool_result_content'[a] = tool_result_content[a]
               /\ blocks'[a] = blocks[a]

\* C19: on a structured model-API error the loop persists `failed`, hands the
\* error to the response callback, and returns: it makes no further model
\* call and runs no tool in that invocation.
C19_ApiErrorEndsInvocation == []C19_ApiErrorInv /\ [][C19_ApiErrorStep]_vars

C19_Witness ==
    \E a \in Agents :
        /\ api_result[a].exception = "APIError"
        /\ api_result[a].callback = "error"
        /\ pc[a] = "finally"
        /\ status[a] = "failed"
        /\ model_calls[a] = 2

\* ---------------------------------------------------------------- C20
\* final_status is "failed" only after a status read that raised
C20_ReadFailedInv ==
    \A a \in Agents :
        final_status[a] = "failed" =>
            /\ pc[a] \in ExitPcs
            /\ model_calls[a] = iteration[a] - 1
            /\ IF pc[a] = "write_status" THEN loop_writes[a] = <<>>
               ELSE loop_writes[a] = <<"failed">>

C20_ReadFailedStep ==
    \A a \in Agents :
        final_status[a] = "failed" =>
            /\ ~ModelCalled(a)
            /\ iteration'[a] \in {iteration[a], 0}
            /\ LoopWrote(a) =>
                   /\ loop_writes'[a] = Append(loop_writes[a], "failed")
                   /\ status'[a] = "failed"

ToolRaised(a) ==
    \E i \in 1..Len(tool_result_content[a]) :
        tool_result_content[a][i] = "execution_failed"

\* a tool_use block is left by no other step than the one that adds its
\* result, whatever the tool did; the step in which a tool raises only adds
\* the error-flagged result; after it no block of the response is skipped,
\* and the results go back to the model as the next user message
C21_Step ==
    \A a \in Agents :
        /\ (/\ pc[a] = "tools" /\ blocks[a] # <<>> /\ Head(blocks[a]) = "tool"
            /\ <<pc[a], blocks[a], tool_result_content[a]>>'
                   # <<pc[a], blocks[a], tool_result_content[a]>>) =>
               /\ pc'[a] = "tools"
               /\ blocks'[a] = Tail(blocks[a])
               /\ Len(tool_result_content'[a]) = Len(tool_result_content[a]) + 1
               /\ status' = status
               /\ loop_writes' = loop_writes
        /\ (~ToolRaised(a) /\ ToolRaised(a)') =>
               /\ pc[a] = "tools" /\ pc'[a] = "tools"
               /\ tool_result_content'[a] =
                      Append(tool_result_content[a], "execution_failed")
               /\ is_error(tool_result_content'[a][Len(tool_result_content'[a])])
               /\ blocks'[a] = Tail(blocks[a])
               /\ status' = status
               /\ loop_writes' = loop_writes
               /\ final_status' = final_status
        /\ (ToolRaised(a) /\ pc'[a] # "tools") =>
               /\ blocks[a] = <<>>
               /\ pc'[a] = "check"
               /\ messages'[a] = Append(messages[a], "tool_results")
               /\ status'[a] = status[a]
               /\ loop_writes' = loop_writes
        /\ (ToolRaised(a) /\ pc'[a] = "tools") =>
               Len(tool_result_content'[a]) + Len(blocks'[a])
                   = Len(tool_result_content[a]) + Len(blocks[a])

\* C21: an exception raised by a tool is turned into an error-flagged tool
\* result and fed back to the model: the conversation's status is not
\* changed by it, the remaining tool_use blocks are run and the loop goes on
\* to its next iteration.
C21_ToolExceptionBecomesResult == [][C21_Step]_vars

C21_Witness ==
    /\ tool_result_content["parent"] = <<"execution_failed", "ok">>
    /\ blocks["parent"] = <<>>
    /\ status["parent"] = "running"
    /\ iteration["parent"] = 2

\* ---------------------------------------------------------------- C22
\* the run of agent a sent DELETE /sessions/{id} for its own session
SelfCleanupDone(a) ==
    \E i \in 1..Len(finalize_steps[a]) : finalize_steps[a][i] = "cleanup"

\* the top-level run (no parent_chat_id) is never given the clean-up flag
\* and never reaches _self_cleanup
C22_Inv ==
    /\ ~loop_args["parent"].cleanup_on_complete
    /\ pc["parent"] # "finally_cleanup"
    /\ ~SelfCleanupDone("parent")
    /\ ("self_cleanup" \in delete_requests) => SelfCleanupDone("child")

\* a self-deletion request is sent by the run of a dispatched sub-agent
\* (parent_chat_id set) whose clean-up flag is set, from its `finally:` block
C22_Step ==
    \A a \in Agents :
        (\/ ~SelfCleanupDone(a) /\ SelfCleanupDone(a)'
         \/ "self_cleanup" \in delete_requests' \ delete_requests) =>
            /\ SelfCleanupDone("child")'
            /\ pc["child"] = "finally_cleanup"
            /\ loop_args["child"].cleanup_on_complete
            /\ sp.sub_conversation_id = "child" \/ sp.pc = "returned"
            /\ spawn.status # "none"

\* C22: a loop launched for a request without a parent identifier never
\* requests deletion of its own session, whatever clean-up flag the request
\* carries; a self-deletion request is only sent by a run that has a parent
\* identifier and whose clean-up flag is set.
C22_OnlySubAgentsSelfCleanup == []C22_Inv /\ [][C22_Step]_vars

C22_Witness ==
    /\ SelfCleanupDone("child")
    /\ "self_cleanup" \in delete_requests
    /\ pc["parent"] = "done"
    /\ exit_log["parent"] # "none"

\* ---------------------------------------------------------------- C23
\* __call__ has returned "Sub-agent ... spawned and working"
NoWaitReturned == sp.pc = "returned" /\ sp.result = "spawned"

\* after the no-wait return no clean-up task exists and the only DELETE ever
\* sent for the session is the child's own
C23_Inv ==
    NoWaitReturned =>
        /\ ~sp.wait_for_completion
        /\ sp.sub_conversation_id = "child"
        /\ cleanup_task = "none"
        /\ delete_requests \subseteq {"self_cleanup"}

\* the call without wait_for_completion returns at the step after the
\* dispatch; from then on the Spawner does nothing, the child's row is
\* written `cancelled` by the child's own loop only, and the session changes
\* only by the child's self clean-up
C23_Step ==
    /\ (sp.pc = "update_running" /\ ~sp.wait_for_completion /\ sp' # sp) =>
           /\ NoWaitReturned'
           /\ sp'.sub_conversation_id = "child"
           /\ session' = session
           /\ status' = status
           /\ delete_requests' = delete_requests
    /\ NoWaitReturned =>
           /\ sp' = sp
           /\ cleanup_task' = cleanup_task
           /\ (status'["child"] = "cancelled" /\ status["child"] # "cancelled") =>
                  /\ loop_writes'["child"] = Append(loop_writes["child"], "cancelled")
                  /\ current_status["child"] = "stopping"
           /\ session' # session => SelfCleanupDone("child")'

\* C23: with wait_for_completion false the Spawner returns right after the
\* dispatch with the session and child conversation identifiers, and from
\* then on never cancels the child's conversation or deletes its session: a
\* later stop of the parent does not reach that child.
C23_NoWaitChildIsIndependent == []C23_Inv /\ [][C23_Step]_vars

C23_Witness ==
    /\ NoWaitReturned
    /\ status["parent"] = "cancelled"
    /\ pc["parent"] = "done"
    /\ status["child"] = "completed"
    /\ session = "created"

\* ---------------------------------------------------------------- C24
\* what __call__ reports for a failed readiness poll, health poll or dispatch
StartFailures ==
    {"Pod failed to start", "API health check failed", "Failed to send task",
     "request timed out"}

\* the call ended on one of these failures
StartFailed == sp.pc = "returned" /\ sp.error \in StartFailures

C24_Inv ==
    StartFailed =>
        /\ spawn.status = "failed"
        /\ "spawner" \in delete_requests
        /\ session = "deleted"
        /\ sp.result = "error"
        /\ ~sp.sub_agent_started /\ pc["child"] = "idle"

\* the step in which the poll or the dispatch fails marks the record,
\* requests the deletion and hands the error result to the parent's loop,
\* which goes on with its blocks; no status row is written
C24_Step ==
    (sp.pc \in {"wait_ready", "wait_health", "dispatch"}
        /\ sp'.pc \notin {sp.pc, "wait_health", "dispatch", "update_running"}) =>
        /\ StartFailed'
        /\ spawn'.status = "failed"
        /\ "spawner" \in delete_requests' /\ session' = "deleted"
        /\ pc["parent"] = "in_tool" /\ pc'["parent"] = "tools"
        /\ tool_result_content'["parent"] =
               Append(tool_result_content["parent"], "error")
        /\ blocks'["parent"] = Tail(blocks["parent"])
        /\ status' = status
        /\ final_status' = final_status
        /\ loop_writes' = loop_writes

\* C24: when the readiness poll, the health poll or the task dispatch fails
\* or times out, the Spawner marks the Spawn Record failed, requests deletion
\* of the session it created and returns an error tool result; the parent's
\* loop continues and its conversation status is unchanged.
C24_StartFailureIsContained == []C24_Inv /\ [][C24_Step]_vars

C24_Witness ==
    /\ StartFailed
    /\ sp.error = "Pod failed to start"
    /\ status["parent"] = "running"
    /\ iteration["parent"] = 2
    /\ pc["parent"] = "call_api"

\* ---------------------------------------------------------------- C25
\* no call of beat has raised into the loop
C25_Inv == hb_calls.raised = 0

\* a call of beat whose write fails returns like one whose write succeeds:
\* it leaves the tracker as the successful call would (last_beat = now), so
\* the calls after it behave the same, and only the stored timestamp is
\* missing
C25_Step ==
    /\ hb_calls'.raised = hb_calls.raised
    /\ hb_calls'.update > hb_calls.update =>
           /\ hb_tracker' = [hb_tracker EXCEPT !.last_beat = hb_clock]
           /\ hb_calls'.beat = hb_calls.beat + 1
           /\ hb_writes' \in {hb_writes, Append(hb_writes, hb_clock)}

\* C25: a failing heartbeat write never raises into the sampling loop and
\* never changes the loop's control flow: the loop takes the same steps and
\* reaches the same final status as if the write had succeeded.
C25_HeartbeatFailureIsSwallowed == []C25_Inv /\ [][C25_Step]_vars

C25_Witness ==
    /\ hb_calls.update = 3
    /\ Len(hb_writes) = 1
    /\ hb_writes[1] > hb_tracker.min_interval + hb_tracker.min_interval
    /\ hb_calls.beat = MaxBeats

\* ---------------------------------------------------------------- C26
\* no write of a message or of the API log has raised into the loop
C26_Inv == \A a \in Agents : ~api_result[a].write_raised

\* the rows of the step are written or missing, and nothing else depends on
\* it: each step of the iteration moves on, extends the conversation in
\* memory, calls the model and writes the status as it does with the rows
\* written
C26_Step ==
    \A a \in Agents :
        /\ (pc[a] = "check" /\ pc'[a] = "call_api") =>
               /\ messages'[a] = messages[a]
               /\ status' = status /\ final_status' = final_status
               /\ stored'[a] \in {stored[a],
                                  store_message(stored[a], "user", "user-input",
                                                Len(messages[a]))}
               /\ api_result'[a].logged \in {{}, {"request"}}
        /\ (pc[a] = "call_api" /\ pc'[a] = "tools") =>
               /\ messages'[a] = Append(messages[a], "assistant")
               /\ model_calls'[a] = model_calls[a] + 1
               /\ status' = status /\ final_status' = final_status
               /\ stored'[a] \in {stored[a],
                                  store_message(stored[a], "assistant", "response",
                                                Len(messages[a]) + 1)}
        /\ (pc[a] = "call_api" /\ pc'[a] # "call_api" /\ pc'[a] # "tools") =>
               /\ pc'[a] = "finally"
               /\ status'[a] = "failed"
               /\ loop_writes'[a] = Append(loop_writes[a], "failed")
               /\ model_calls'[a] = model_calls[a] + 1
        /\ (pc[a] = "tools" /\ pc'[a] = "check") =>
               /\ Len(messages'[a]) = Len(messages[a]) + 1
               /\ status' = status /\ final_status' = final_status
               /\ IsPrefix(stored[a], stored'[a])
               /\ Len(stored'[a]) <= Len(stored[a]) + 1
        /\ (pc[a] = "tools" /\ pc'[a] = "finally") =>
               /\ status'[a] = "completed" /\ final_status'[a] = "completed"
               /\ stored'[a] = stored[a]

\* C26: a failure to store a message or to log an API request or response
\* is caught and never changes the loop's control flow: the model calls, the
\* tool executions and the final persisted status are the same as if the
\* write had succeeded.
C26_BestEffortWrites == []C26_Inv /\ [][C26_Step]_vars

C26_Witness ==
    /\ message_store = "faulty"
    /\ pc["parent"] = "finally"
    /\ status["parent"] = "completed"
    /\ model_calls["parent"] = 2
    /\ Len(messages["parent"]) = 4
    /\ stored["parent"] = <<>>
    /\ api_result["parent"].logged = {}

\* ---------------------------------------------------------------- C27
\* the column has been written at most once, and holds the conversation the
\* child's front door created when it accepted the task
C27_Inv ==
    /\ spawn.child_id_writes <= 1
    /\ spawn.child_id_writes = 1 <=> spawn.child_conversation_id # "NULL"
    /\ spawn.child_conversation_id # "NULL" =>
           /\ spawn.child_conversation_id = "child"
           /\ status["child"] # "none"

\* the write is the one made right after the accepted dispatch, and the
\* column keeps its value under every later update of the record
C27_Step ==
    /\ spawn'.child_id_writes # spawn.child_id_writes =>
           /\ sp.pc = "update_running"
           /\ sp.sub_agent_started
           /\ sp.sub_conversation_id = "child"
           /\ status["child"] # "none"
           /\ spawn.child_conversation_id = "NULL"
           /\ spawn'.child_conversation_id = "child"
    /\ spawn.child_conversation_id # "NULL" =>
           spawn'.child_conversation_id = spawn.child_conversation_id

\* C27: a Spawn Record's child_conversation_id is written at most once over
\* the record's life, and only after the child accepted the dispatched task.
C27_ChildIdWrittenOnce == []C27_Inv /\ [][C27_Step]_vars

C27_Witness ==
    /\ spawn.child_id_writes = 1
    /\ spawn.child_conversation_id = "child"
    /\ spawn.updates >= 4
    /\ spawn.status = "completed"
    /\ sp.pc = "returned"

\* ---------------------------------------------------------------- C28
\* statuses the loop passes to update_status
C28_Inv ==
    \A a \in Agents :
        \A i \in 1..Len(loop_writes[a]) :
            loop_writes[a][i] \in {"cancelled", "paused", "failed", "completed"}

\* a write of `cancelled` or `paused` by the loop is the one of the status
\* check of this iteration, made with `stopping` or `pausing` just read
C28_Step ==
    \A a \in Agents :
        LoopWrote(a) =>
            LET written == loop_writes'[a][Len(loop_writes'[a])] IN
            /\ loop_writes'[a] = Append(loop_writes[a], written)
            /\ status'[a] = written
            /\ written \notin {"running", "stopping", "pausing"}
            /\ written = "cancelled" =>
                   pc[a] = "write_status" /\ current_status[a] = "stopping"
            /\ written = "paused" =>
                   pc[a] = "write_status" /\ current_status[a] = "pausing"

\* C28: the sampling loop persists `cancelled` only after it read `stopping`
\* at the top of an iteration and `paused` only after it read `pausing`, and
\* it never writes `running`, `stopping` or `pausing` to an existing
\* conversation.
C28_LoopStatusWrites == []C28_Inv /\ [][C28_Step]_vars

C28_Witness ==
    /\ loop_writes["parent"] = <<"cancelled">>
    /\ loop_writes["child"] = <<"paused">>
    /\ status["parent"] = "cancelled"
    /\ status["child"] = "paused"

\* ---------------------------------------------------------------- C29
\* user-role messages with a breakpoint on some content item
Marked(msgs) ==
    {i \in UserIndices(msgs) :
        \E k \in 1..Len(msgs[i].content) : msgs[i].content[k].cache_control}

\* the (up to) 3 most recent user-role messages
MostRecentUsers(msgs) ==
    {i \in UserIndices(msgs) :
        Cardinality({j \in UserIndices(msgs) : j > i}) < 3}

\* C29: with prompt caching enabled, after the cache-breakpoint step of
\* every iteration the user-role messages that carry a cache breakpoint are
\* exactly the (up to) 3 most recent user-role messages; no older user
\* message keeps a breakpoint, over any number of iterations.
C29_BreakpointsOnThreeMostRecent ==
    cache_phase = "turn" =>
        /\ Marked(cache_messages) = MostRecentUsers(cache_messages)
        /\ \A i \in 1..Len(cache_messages) :
               \A k \in 1..Len(cache_messages[i].content) :
                   cache_messages[i].content[k].cache_control =>
                       /\ i \in MostRecentUsers(cache_messages)
                       /\ k = Len(cache_messages[i].content)

C29_Witness ==
    /\ cache_phase = "turn"
    /\ Cardinality(UserIndices(cache_messages)) = 6
    /\ Cardinality(Marked(cache_messages)) = 3
    /\ Len(cache_messages[Len(cache_messages)].content) = 2

\* ---------------------------------------------------------------- C30
\* where the tool-result images of a history are, as <<message, block, item>>
\* in message order, from item c of block b of message m on
RECURSIVE ImagePositions(_, _, _, _)
ImagePositions(msgs, m, b, c) ==
    IF m > Len(msgs) THEN <<>>
    ELSE IF ~msgs[m].is_list \/ b > Len(msgs[m].content)
         THEN ImagePositions(msgs, m + 1, 1, 1)
         ELSE LET block == msgs[m].content[b] IN
              IF block.type # "tool_result" \/ ~block.is_list
                     \/ c > Len(block.content)
              THEN ImagePositions(msgs, m, b + 1, 1)
              ELSE (IF block.content[c].type = "image" THEN <<<<m, b, c>>>>
                    ELSE <<>>)
                   \o ImagePositions(msgs, m, b, c + 1)

\* the n oldest tool-result images
OldestImages(msgs, n) ==
    LET positions == ImagePositions(msgs, 1, 1, 1) IN
    {positions[i] : i \in 1..n}

\* the items of a content list from index c on, without the removed ones
RECURSIVE ItemsWithout(_, _, _, _, _)
ItemsWithout(content, m, b, c, removed) ==
    IF c > Len(content) THEN <<>>
    ELSE (IF <<m, b, c>> \in removed THEN <<>> ELSE <<content[c]>>)
         \o ItemsWithout(content, m, b, c + 1, removed)

\* the history with the images at the removed positions taken out and
\* everything else in place
HistoryWithout(msgs, removed) ==
    [m \in 1..Len(msgs) |->
        IF ~msgs[m].is_list THEN msgs[m]
        ELSE [msgs[m] EXCEPT !.content =
                 [b \in 1..Len(msgs[m].content) |->
                     [msgs[m].content[b] EXCEPT !.content =
                         ItemsWithout(msgs[m].content[b].content, m, b, 1,
                                      removed)]]]]

\* the call leaves the history without its n oldest tool-result images, for
\* an n that spares the `keep` most recent ones
C30_Step ==
    (~filter_call.called /\ filter_call'.called) =>
        LET before == total_images(tool_result_blocks(filter_messages))
            after == total_images(tool_result_blocks(filter_messages'))
            n == before - after IN
        /\ n >= 0
        /\ n <= Max0(before - filter_call'.images_to_keep)
        /\ LET oldest == OldestImages(filter_messages, n) IN
           filter_messages' = HistoryWithout(filter_messages, oldest)
        /\ Len(filter_messages') = Len(filter_messages)

\* C30: the images that image filtering removes are the oldest tool-result
\* images in message order: the most recent `keep` images are always
\* retained, and no non-image content of any message is removed or reordered.
C30_OldestImagesRemoved == [][C30_Step]_vars

\* the two oldest screenshots are gone; the third one, the text next to it,
\* the top-level image and the newer message's screenshot are in place
C30_Witness ==
    /\ filter_call.called
    /\ filter_call.total_images = 4
    /\ ImagesRemoved = 2
    /\ Len(filter_messages) = 2
    /\ filter_messages[1].content[1].content = <<>>
    /\ filter_messages[1].content[2].content = <<ImageItem, TextItem>>
    /\ filter_messages[2].content[1].type = "image"
    /\ filter_messages[2].content[2].content = <<TextItem, ImageItem>>

\* ---------------------------------------------------------------- C31
\* the Spawn Record status `s` agrees with the conversation status `c`
Agrees(s, c) ==
    \/ s = "completed" /\ c = "completed"
    \/ s = "failed" /\ c = "failed"
    \/ s = "cancelled" /\ c \in {"cancelled", "paused"}

\* the finalization of the sub-agent's loop writes the Spawn Record in this step
FinalizationWrote(a) ==
    /\ pc[a] = "finally"
    /\ loop_args[a].spawn_id
    /\ Len(finalize_steps'[a]) = Len(finalize_steps[a]) + 2

C31_Step ==
    FinalizationWrote("child") => Agrees(spawn'.status, status'["child"])

\* C31: when a sub-agent's loop exits, the terminal status its finalization
\* writes to the Spawn Record agrees with the status persisted on its
\* conversation (completed/completed, failed/failed, cancelled with cancelled
\* or paused), on every exit path.
C31_FinalizationAgrees == [][C31_Step]_vars

\* ---------------------------------------------------------------- C32
\* C32: each message appended to a conversation (the user task, each
\* assistant response, each tool-results message, the finalize-memory prompt)
\* is persisted to the Store at most once: no two stored rows of a
\* conversation hold the same message.
C32_MessageStoredOnce ==
    \A a \in Agents :
        \A i, j \in 1..Len(stored[a]) :
            stored[a][i].message = stored[a][j].message => i = j

\* ---------------------------------------------------------------- C33
\* the child of the current spawn accepted the task and its loop has left
\* the part of `finally:` that writes the Spawn Record
ChildLoopExited ==
    /\ sp.sub_agent_started
    /\ pc["child"] \in {"finally_cleanup", "done"}

\* C33: for every spawn whose child accepted the task, once the child's loop
\* has exited the Spawn Record is in a terminal status and stays terminal,
\* whichever of the parent's `running` write and the child's finalization
\* write happens first.
C33_ExitedChildHasTerminalRecord ==
    ChildLoopExited => spawn.status \in TerminalSpawnStatuses

\* ---------------------------------------------------------------- C34
\* a step in which the child's conversation becomes `cancelled` by a write
\* that is not one of the child loop's own
SpawnerForcedCancelled ==
    /\ status'["child"] = "cancelled"
    /\ status["child"] # "cancelled"
    /\ loop_writes'["child"] = loop_writes["child"]

C34_Step ==
    SpawnerForcedCancelled => status["child"] \notin {"completed", "failed"}

\* C34: the Spawner never rewrites a child conversation that has already
\* reached `completed` or `failed` to `cancelled`: its clean-up forces the
\* child's status to `cancelled` only while the child is still unresolved.
C34_ResolvedChildNotCancelled == [][C34_Step]_vars

\* ---------------------------------------------------------------- C35
\* the steps of SubAgentTool.__call__ after create_spawn: every one is an
\* awaited request or store write with a timeout, so the coroutine goes on
SpawnerStep ==
    \/ \E code \in {201, 409, 500} : CreateSession(code)
    \/ \E r \in BOOLEAN : WaitForReady(r)
    \/ \E h \in BOOLEAN : WaitForApiHealth(h)
    \/ DispatchAccepted
    \/ DispatchRejected
    \/ UpdateRunning
    \/ \E o \in {"ok", "non_success", "raises"} : PollParent(o)
    \/ CancelPatch
    \/ CancelDelete
    \/ \E o \in {"ok", "non_success"} : PollChild(o)
    \/ \E m \in {0, 1} : PollSleep(m)
    \/ UpdateCancelled
    \/ UpdateCompleted

\* the `finally:` block of a loop that has left its `while True:`
FinalizationStep ==
    \E a \in Agents : Finally(a) \/ \E o \in DeleteOutcomes : FinallyCleanup(a, o)

\* the event loop runs the spawner's coroutine, the fire-and-forget clean-up
\* task and a loop's `finally:` block once they can run; nothing is assumed
\* about how long the child's model and tool calls take or about the controller
SpecSpawnerFair ==
    /\ Init /\ [][Next]_vars
    /\ WF_vars(SpawnerStep)
    /\ WF_vars(CleanupTaskRun)
    /\ WF_vars(FinalizationStep)

\* a session the Broker created for a waited spawn with cleanup_on_complete
WaitedCleanupSession ==
    /\ session = "created"
    /\ sp.wait_for_completion
    /\ sp.cleanup_on_complete

\* C35: every child session the Broker created for a waited spawn with
\* cleanup_on_complete true eventually receives a deletion request (from the
\* Spawner or from the child's own finalization), on every exit path of the
\* Spawner, including when the child never reports a terminal status.
C35_SessionEventuallyDeleted == WaitedCleanupSession ~> (session = "deleted")

\* ---------------------------------------------------------------- C36
\* the loop runs _self_cleanup in this step
SelfCleanupStep(a) ==
    /\ pc[a] = "finally_cleanup"
    /\ Len(finalize_steps'[a]) = Len(finalize_steps[a]) + 1

\* no exception of _self_cleanup leaves the loop
C36_Inv == \A a \in Agents : pc[a] # "raised"

\* when _self_cleanup runs, every run of this loop so far has persisted a
\* terminal status, the last step of the finalization was the Spawn Record
\* update, and the loop ends normally whatever the request met
C36_Step ==
    \A a \in Agents :
        SelfCleanupStep(a) =>
            /\ Len(loop_writes[a]) >= CountOf(finalize_steps[a], "memory")
            /\ loop_writes[a][Len(loop_writes[a])] \in TerminalStatuses
            /\ loop_args[a].spawn_id
            /\ finalize_steps[a][Len(finalize_steps[a])] = "spawn"
            /\ spawn.status \in TerminalSpawnStatuses \cup {"running"}
            /\ spawn.updates > 0
            /\ pc'[a] = "done"

StatusReadFindsNoRow(a) ==
    /\ pc[a] = "check"
    /\ iteration'[a] = iteration[a] + 1
    /\ status[a] = "none"

C37_Step ==
    \A a \in Agents :
        StatusReadFindsNoRow(a) =>
            /\ final_status'[a] = "failed"
            /\ pc'[a] = "write_status"

\* a model call is only made by a run whose conversation row exists
C37_Call ==
    \A a \in Agents :
        (model_calls'[a] # model_calls[a]) => current_status[a] # "failed"

\* C37: if the status read at the top of an iteration finds no row for the
\* conversation, the loop treats the run as failed and exits without making
\* a model call.
C37_MissingRowEndsRun == [][C37_Step /\ C37_Call]_vars

\* ---------------------------------------------------------------- C38
\* C38: the image-retention step never raises for any configuration the
\* sampling loop accepts, including when only_n_most_recent_images is unset
\* or 0 so that the chunk threshold derived from it is 0; the first iteration
\* then proceeds to the model call.
C38_RetentionNeverRaises == retention.done => ~retention.raised

\* ---------------------------------------------------------------- C39
\* the codes the results up to position n returned for the credential
CodesReturned(results, slug, n) ==
    {results[i].code : i \in {k \in 1..n : /\ results[k].slug = slug
                                           /\ results[k].error = "none"}}

\* no code is returned twice for one credential
C39_Inv ==
    \A i, j \in 1..Len(cred_results) :
        (/\ i < j
         /\ cred_results[i].slug = cred_results[j].slug
         /\ cred_results[i].error = "none"
         /\ cred_results[j].error = "none") =>
            cred_results[i].code # cred_results[j].code

\* a call that reached the cache returns the first configured code not yet
\* returned for the credential, and the all-used error exactly when every
\* configured code has been returned
C39_Step ==
    (Len(cred_results') = Len(cred_results) + 1) =>
        LET result == cred_results'[Len(cred_results')]
            slug == result.slug
            before == IF slug \in Slugs
                      THEN CodesReturned(cred_results, slug, Len(cred_results))
                      ELSE {}
            configured == IF slug \in Slugs THEN all_codes(cred_broker[slug])
                          ELSE <<>>
            fresh == {i \in 1..Len(configured) : configured[i] \notin before} IN
        /\ result.error = "none" =>
               /\ fresh # {}
               /\ \E i \in fresh : /\ result.code = configured[i]
                                   /\ \A k \in fresh : i <= k
        /\ result.error = "all_used" => fresh = {}
        /\ (cred_loaded /\ slug \in Slugs /\ fresh # {}) => result.error = "none"
        /\ (cred_loaded /\ slug \in Slugs /\ fresh = {}) =>
               result.error \in {"all_used", "not_configured"}

\* C39: within one CredentialsTool instance, the backup_code action never
\* returns the same backup code twice for the same credential: it hands out
\* the configured codes in order, each at most once, and returns an error
\* once all of them have been used.
C39_BackupCodesOnce == []C39_Inv /\ [][C39_Step]_vars

C39_Witness ==
    /\ cred_broker["s1"] = <<" A ", "B">>
    /\ cred_results = <<CodeResult("s1", "A"), CodeResult("s1", "B"),
                        ErrorResult("s1", "all_used"), CodeResult("s2", "A")>>
====
